---- MODULE Spec2Model ----
(***************************************************************************)
(* Model of the ECU tuning assistant (gduemer/DynoMonsters, python/ecu):   *)
(* the bounded seeded search run_optimization, its candidate generator and *)
(* calibration sampler, the constraint validator validate_proposal, and    *)
(* the request pipeline process_request that wraps them; and of the legacy *)
(* optimizer and the wear model of src/ecu.                                *)
(*                                                                         *)
(* Numbers.  A Python float is held as the IEEE 754 double it is: the      *)
(* record [sign, m, e] stands for sign * m * 2^e, with m a natural number  *)
(* of 53 bits (fewer for a subnormal) written in digits of base 2^14.      *)
(* The arithmetic of the code is done on these records as the interpreter  *)
(* does it: +, -, *, / and math.sqrt rounded to the nearest double, ties   *)
(* to even; math.exp and ** as the C library computes them; round() as     *)
(* Python rounds.  The draws of the random stream are those of             *)
(* random.Random.  The two zeros 0.0 and -0.0, which compare equal, are    *)
(* one value.                                                              *)
(***************************************************************************)
EXTENDS Integers, Sequences, FiniteSets, TLC

\* ------------------------------------------------------------------------
\* Natural numbers of any size
\* ------------------------------------------------------------------------

Min2(a, b) == IF a <= b THEN a ELSE b
Max2(a, b) == IF a >= b THEN a ELSE b
Abs(x) == IF x < 0 THEN -x ELSE x

\* A natural number is written in digits of base Limb, least significant
\* digit first, without leading zeros (the empty sequence is 0).
Limb == 2 ^ 14

\* The digits a without leading zeros.
RECURSIVE trim(_)
trim(a) ==
    IF a = <<>> THEN a
    ELSE IF a[Len(a)] # 0 THEN a
    ELSE trim(SubSeq(a, 1, Len(a) - 1))

digit(a, i) == IF 1 <= i /\ i <= Len(a) THEN a[i] ELSE 0

\* The digits of the columns c from column k on, cy being carried in:
\* column k holds c[k] + cy, of which all but the last digit is carried on.
RECURSIVE carry(_, _, _)
carry(c, k, cy) ==
    IF k > Len(c) /\ cy = 0 THEN <<>>
    ELSE <<(digit(c, k) + cy) % Limb>> \o carry(c, k + 1, (digit(c, k) + cy) \div Limb)

\* The digits of the int n >= 0.
nat(n) == IF n = 0 THEN <<>> ELSE carry(<<n>>, 1, 0)

\* The int of the digits a (below 2^31).
int(a) == digit(a, 1) + Limb * (digit(a, 2) + Limb * digit(a, 3))

\* a + b.
add(a, b) ==
    carry([k \in 1..Max2(Len(a), Len(b)) |-> digit(a, k) + digit(b, k)], 1, 0)

\* a - b for a >= b: the digits from digit k on, bw being borrowed.
RECURSIVE borrow(_, _, _, _)
borrow(a, b, k, bw) ==
    IF k > Len(a) THEN <<>>
    ELSE <<(a[k] - digit(b, k) - bw) % Limb>>
         \o borrow(a, b, k + 1, IF a[k] - digit(b, k) - bw < 0 THEN 1 ELSE 0)
sub(a, b) == trim(borrow(a, b, 1, 0))

\* The sign of a - b, decided at the highest digit in which they differ,
\* looking from digit k down.
RECURSIVE cmp_from(_, _, _)
cmp_from(a, b, k) ==
    IF k = 0 THEN 0
    ELSE IF a[k] # b[k] THEN (IF a[k] > b[k] THEN 1 ELSE -1)
    ELSE cmp_from(a, b, k - 1)
cmp(a, b) ==
    IF Len(a) # Len(b) THEN (IF Len(a) > Len(b) THEN 1 ELSE -1)
    ELSE cmp_from(a, b, Len(a))

\* Column k of the product a * b: the sum of a[i] * b[k + 1 - i], from
\* digit i of a on (at most 7 digit products fit an int).
RECURSIVE column(_, _, _, _)
column(a, b, k, i) ==
    IF i > Len(a) \/ i > k THEN 0
    ELSE a[i] * b[k + 1 - i] + column(a, b, k, i + 1)

\* a * b, for a or b of at most 7 digits.
mul(a, b) ==
    IF a = <<>> \/ b = <<>> THEN <<>>
    ELSE carry([k \in 1..(Len(a) + Len(b) - 1) |->
                   column(a, b, k, Max2(1, k + 1 - Len(b)))], 1, 0)

\* a * s for one digit s.
mul_small(a, s) == IF s = 0 THEN <<>> ELSE carry([k \in 1..Len(a) |-> a[k] * s], 1, 0)

\* a * 2^k.
shl(a, k) ==
    IF a = <<>> THEN a
    ELSE [i \in 1..(k \div 14) |-> 0] \o mul_small(a, 2 ^ (k % 14))

\* floor(a / 2^k).
shr(a, k) ==
    LET l == k \div 14
        w == 2 ^ (k % 14)
    IN  trim([i \in 1..(Len(a) - l) |->
                 (a[i + l] \div w) + (digit(a, i + l + 1) % w) * (Limb \div w)])

\* The number of bits of one digit n and of the digits a.
RECURSIVE bits(_)
bits(n) == IF n = 0 THEN 0 ELSE 1 + bits(n \div 2)
bit_length(a) == IF a = <<>> THEN 0 ELSE 14 * (Len(a) - 1) + bits(a[Len(a)])

\* Bit i of a (bit 0 is the lowest), and whether any bit below bit i is set.
bit(a, i) == (digit(a, i \div 14 + 1) \div 2 ^ (i % 14)) % 2
any_below(a, i) ==
    \/ digit(a, i \div 14 + 1) % 2 ^ (i % 14) # 0
    \/ \E k \in 1..Min2(i \div 14, Len(a)) : a[k] # 0

\* The only element of the set S.  A set {f(x) : x \in {e}} has e worked out
\* before f is, so a chain of such sets is worked out step by step.
Only(S) == CHOOSE x \in S : TRUE

\* floor(r / d) for digits d whose highest digit is at least Limb / 2 and
\* r < d * Limb: the quotient of the two highest digits of r by the highest
\* of d is that digit or up to 2 above it.
quotient_digit(r, d) ==
    Only({IF cmp(mul_small(d, est), r) <= 0 THEN est
          ELSE IF cmp(mul_small(d, est - 1), r) <= 0 THEN est - 1
          ELSE est - 2 :
            est \in {Min2(Limb - 1, (digit(r, Len(d) + 1) * Limb + digit(r, Len(d)))
                                       \div d[Len(d)])}})

\* One step of long division by d, d as in quotient_digit: the digit x is
\* brought down to the remainder s.r, and the digit of the quotient it gives
\* is put under the digits s.q found so far.
div_step(d, x, s) ==
    Only({Only({[q |-> <<q>> \o s.q, r |-> sub(r, mul_small(d, q))] :
                  q \in {quotient_digit(r, d)}}) :
            r \in {trim(<<x>> \o s.r)}})

\* Quotient q and remainder r of a by d: long division from digit k of a
\* down, s holding the quotient and the remainder of the digits above k.
RECURSIVE divmod(_, _, _, _)
divmod(a, d, k, s) ==
    IF k = 0 THEN [q |-> trim(s.q), r |-> s.r]
    ELSE Only({divmod(a, d, k - 1, t) : t \in {div_step(d, a[k], s)}})

\* floor(a / d) and whether the division leaves a remainder, for any d > 0:
\* a and d are first scaled so that the highest digit of d is Limb / 2 or more.
div(a, d) ==
    Only({[q |-> qr.q, inexact |-> qr.r # <<>>] :
            qr \in {divmod(x[1], x[2], Len(x[1]), [q |-> <<>>, r |-> <<>>]) :
                      x \in {<<shl(a, 14 - bits(d[Len(d)])), shl(d, 14 - bits(d[Len(d)]))>>}}})

\* 10^k.
RECURSIVE power_of_ten(_)
power_of_ten(k) == IF k = 0 THEN <<1>> ELSE mul_small(power_of_ten(k - 1), 10)

\* ------------------------------------------------------------------------
\* Floats
\* ------------------------------------------------------------------------

\* The double 0.0.
Zero == [sign |-> 0, m |-> <<>>, e |-> 0]

\* The non-finite floats nan, inf and -inf.
NaN == [sign |-> 0, m |-> <<>>, e |-> 5000]
PosInf == [sign |-> 1, m |-> <<1>>, e |-> 5000]
NegInf == [sign |-> -1, m |-> <<1>>, e |-> 5000]
inf(sign) == IF sign < 0 THEN NegInf ELSE PosInf
is_inf(a) == a = PosInf \/ a = NegInf

\* What a float operation gives where Python raises instead of returning a
\* float: a / 0.0 raises ZeroDivisionError, math.sqrt of a negative number
\* ValueError, and math.exp and ** of a result too large OverflowError.  An
\* operation on such a value gives it back: the exception goes on.
ZeroDivisionError == [sign |-> 0, m |-> <<>>, e |-> 6001]
ValueError == [sign |-> 0, m |-> <<>>, e |-> 6002]
OverflowError == [sign |-> 0, m |-> <<>>, e |-> 6003]
raises(a) == a.e > 6000

\* validator._is_finite: math.isfinite(value).
is_finite(value) == value.e < 5000

\* The double sign * m * 2^e for m of at most 53 bits, or the infinity of
\* that sign where it lies beyond the largest double.
finite_or_inf(sign, m, e) ==
    IF e + bit_length(m) > 1024 THEN inf(sign) ELSE [sign |-> sign, m |-> m, e |-> e]

\* (n + x) / 2^t for t >= 1, where 0 <= x < 1 and x > 0 iff sticky, rounded
\* to a whole number, half to even: floor(n / 2^t), and one more if the part
\* dropped is over a half, or is a half and the floor is odd.
round_at(n, t, sticky) ==
    Only({IF bit(n, t - 1) = 1
             /\ (sticky \/ any_below(n, t - 1) \/ digit(q, 1) % 2 = 1)
          THEN add(q, <<1>>) ELSE q :
            q \in {shr(n, t)}})

\* The double nearest to sign * (n + x) * 2^e, where 0 <= x < 1 and x > 0
\* iff sticky: n is rounded to 53 bits, or to fewer where the double is
\* subnormal (below 2^-1022), half to even; beyond the largest double it is
\* the infinity of that sign.
fl(sign, n, e, sticky) ==
    IF n = <<>> THEN Zero
    ELSE Only({IF t <= 0 THEN finite_or_inf(sign, shl(n, -t), e + t)
               ELSE Only({IF m = <<>> THEN Zero
                          ELSE IF bit_length(m) > 53
                          THEN finite_or_inf(sign, shr(m, 1), e + t + 1)
                          ELSE finite_or_inf(sign, m, e + t) :
                            m \in {round_at(n, t, sticky)}}) :
                 t \in {Max2(bit_length(n) - 53, -1074 - e)}})

\* A Python int has no largest value.  The ints written here are below
\* 2^31 but for one: the int 10^16 is written TenTo16, a number that no
\* other int of a request reaches, and it has the digits of 10^16.
TenTo16 == 2000000016

\* The digits of the int n >= 0.
int_digits(n) == IF n = TenTo16 THEN power_of_ten(16) ELSE nat(n)

\* float(n) of an int n.
float(n) == fl(IF n < 0 THEN -1 ELSE 1, int_digits(Abs(n)), 0, FALSE)

\* a / b of two ints a >= 0 and b > 0: the double nearest to the quotient.
int_quotient_shift(a, b) == 56 + bit_length(int_digits(b)) - bit_length(int_digits(a))
true_divide(a, b) ==
    IF a = 0 THEN Zero
    ELSE Only({fl(1, qr.q, -int_quotient_shift(a, b), qr.inexact) :
                 qr \in {div(shl(int_digits(a), int_quotient_shift(a, b)), int_digits(b))}})

\* The float literals 1e308 (0x1.1ccf385ebc8a0p+1023), 5e307 and 1.7e308
\* (0x1.e42d130773b76p+1023), the largest double being about 1.797e308.
Float1e308 == [sign |-> 1, m |-> <<2208, 6063, 3896, 1139>>, e |-> 971]
Float5e307 == [sign |-> 1, m |-> <<2208, 6063, 3896, 1139>>, e |-> 970]
Float17e307 == [sign |-> 1, m |-> <<15222, 476, 11539, 1936>>, e |-> 971]

\* 5e-324, the least positive double.
MinSubnormal == [sign |-> 1, m |-> <<1>>, e |-> -1074]

\* The float written as the decimal n / 10^digits: the double nearest to it.
decimal(n, digits) ==
    Only({fl(IF n < 0 THEN -1 ELSE 1, qr.q, -100, qr.inexact) :
            qr \in {div(shl(nat(Abs(n)), 100), nat(10 ^ digits))}})

\* One unit of a float literal written to four decimals.
Unit == 10000

\* A float literal given as whole units and ten-thousandths: F(12, 5000) is
\* 12.5 and F(0, 300) is 0.03.
F(whole, frac) == decimal(whole * Unit + frac, 4)

\* -a and abs(a).
fneg(a) == [a EXCEPT !.sign = -a.sign]
fabs(a) == [a EXCEPT !.sign = a.sign * a.sign]

\* The sign of a - b, for floats a and b that are not nan (an infinity lies
\* beyond every finite float).
fcmp(a, b) ==
    IF a.sign # b.sign THEN (IF a.sign > b.sign THEN 1 ELSE -1)
    ELSE IF a.sign = 0 THEN 0
    ELSE IF a.e + bit_length(a.m) # b.e + bit_length(b.m)
    THEN (IF a.e + bit_length(a.m) > b.e + bit_length(b.m) THEN a.sign ELSE -a.sign)
    ELSE LET e == Min2(a.e, b.e)
         IN  a.sign * cmp(shl(a.m, a.e - e), shl(b.m, b.e - e))

\* The comparisons a > b, a < b, a >= b and a <= b of two floats: each is
\* false when a or b is nan.
gt(a, b) == a # NaN /\ b # NaN /\ fcmp(a, b) > 0
lt(a, b) == a # NaN /\ b # NaN /\ fcmp(a, b) < 0
ge(a, b) == a # NaN /\ b # NaN /\ fcmp(a, b) >= 0
le(a, b) == a # NaN /\ b # NaN /\ fcmp(a, b) <= 0

\* The exact value sign * (n + x) * 2^e, where 0 <= x < 1 and x > 0 iff
\* sticky, before it is rounded to a double.
exact(sign, n, e, sticky) == [sign |-> sign, n |-> n, e |-> e, sticky |-> sticky]

\* s1 * x * 2^e + s2 * y * 2^e.
aligned_sum(s1, x, s2, y, e) ==
    IF s1 = s2 THEN exact(s1, add(x, y), e, FALSE)
    ELSE Only({IF c = 0 THEN exact(0, <<>>, 0, FALSE)
               ELSE IF c > 0 THEN exact(s1, sub(x, y), e, FALSE)
               ELSE exact(s2, sub(y, x), e, FALSE) :
                 c \in {cmp(x, y)}})

\* s1 * n1 * 2^e1 + s2 * n2 * 2^e2.  A term that lies wholly below the 64th
\* bit under the other one only tells which way the other is rounded.
exact_terms(s1, n1, e1, s2, n2, e2) ==
    IF n1 = <<>> THEN exact(s2, n2, e2, FALSE)
    ELSE IF n2 = <<>> THEN exact(s1, n1, e1, FALSE)
    ELSE IF e2 + bit_length(n2) < e1 - 64
    THEN exact(s1, IF s1 = s2 THEN shl(n1, 64) ELSE sub(shl(n1, 64), <<1>>), e1 - 64, TRUE)
    ELSE IF e1 + bit_length(n1) < e2 - 64
    THEN exact(s2, IF s1 = s2 THEN shl(n2, 64) ELSE sub(shl(n2, 64), <<1>>), e2 - 64, TRUE)
    ELSE Only({aligned_sum(s1, x[1], s2, x[2], Min2(e1, e2)) :
                 x \in {<<shl(n1, e1 - Min2(e1, e2)), shl(n2, e2 - Min2(e1, e2))>>}})

\* The double nearest to s1 * n1 * 2^e1 + s2 * n2 * 2^e2.
exact_sum(s1, n1, e1, s2, n2, e2) ==
    Only({fl(v.sign, v.n, v.e, v.sticky) : v \in {exact_terms(s1, n1, e1, s2, n2, e2)}})

\* a + b, a * b and a / b where a or b is not finite: an exception raised
\* for a or b goes on, nan gives nan, and so do inf - inf, inf * 0.0 and
\* inf / inf; a / 0.0 raises whatever a is.
special_sum(a, b) ==
    IF raises(a) THEN a ELSE IF raises(b) THEN b
    ELSE IF a = NaN \/ b = NaN THEN NaN
    ELSE IF is_inf(a) THEN (IF is_inf(b) /\ a # b THEN NaN ELSE a)
    ELSE b
special_product(a, b) ==
    IF raises(a) THEN a ELSE IF raises(b) THEN b
    ELSE IF a = NaN \/ b = NaN \/ a.sign = 0 \/ b.sign = 0 THEN NaN
    ELSE inf(a.sign * b.sign)
special_quotient(a, b) ==
    IF raises(a) THEN a ELSE IF raises(b) THEN b
    ELSE IF b.sign = 0 /\ b # NaN THEN ZeroDivisionError
    ELSE IF a = NaN \/ b = NaN \/ (is_inf(a) /\ is_inf(b)) THEN NaN
    ELSE IF is_inf(a) THEN inf(a.sign * b.sign)
    ELSE Zero

\* The float operations a + b, a - b, a * b and a / b, and the fused
\* a * b + c of the C library (of finite floats).
fadd(a, b) ==
    IF a.e >= 5000 \/ b.e >= 5000 THEN special_sum(a, b)
    ELSE exact_sum(a.sign, a.m, a.e, b.sign, b.m, b.e)
fsub(a, b) ==
    IF a.e >= 5000 \/ b.e >= 5000 THEN special_sum(a, fneg(b))
    ELSE exact_sum(a.sign, a.m, a.e, -b.sign, b.m, b.e)
fmul(a, b) ==
    IF a.e >= 5000 \/ b.e >= 5000 THEN special_product(a, b)
    ELSE fl(a.sign * b.sign, mul(a.m, b.m), a.e + b.e, FALSE)
fma(a, b, c) == exact_sum(a.sign * b.sign, mul(a.m, b.m), a.e + b.e, c.sign, c.m, c.e)
quotient_shift(a, b) == 56 + bit_length(b.m) - bit_length(a.m)
fdiv(a, b) ==
    IF a.e >= 5000 \/ b.e >= 5000 \/ b.sign = 0 THEN special_quotient(a, b)
    ELSE IF a.sign = 0 THEN Zero
    ELSE Only({fl(a.sign * b.sign, qr.q, a.e - b.e - quotient_shift(a, b), qr.inexact) :
                 qr \in {div(shl(a.m, quotient_shift(a, b)), b.m)}})

\* max(a, b) and min(a, b) of two floats as Python gives them: the first
\* argument unless the second is greater (less).
fmax(a, b) == IF gt(b, a) THEN b ELSE a
fmin(a, b) == IF lt(b, a) THEN b ELSE a

\* floor(sqrt(n)) for an int n >= 0, between lo and hi.
RECURSIVE isqrt_in(_, _, _)
isqrt_in(n, lo, hi) ==
    IF lo = hi THEN lo
    ELSE LET mid == (lo + hi + 1) \div 2
         IN  IF mid * mid <= n THEN isqrt_in(n, mid, hi) ELSE isqrt_in(n, lo, mid - 1)

\* floor(sqrt(n)) for digits n, by Newton's iteration downwards from x,
\* which is no less than the root.
RECURSIVE isqrt_from(_, _)
isqrt_from(n, x) ==
    Only({IF cmp(y, x) >= 0 THEN x ELSE isqrt_from(n, y) :
            y \in {shr(add(x, div(n, x).q), 1)}})
isqrt(n) ==
    LET s == 2 * (Max2(0, bit_length(n) - 27) \div 2)
        high == int(shr(n, s))
    IN  Only({isqrt_from(x[1], x[2]) :
                x \in {<<n, shl(nat(isqrt_in(high, 0, 16383) + 1), s \div 2)>>}})

\* math.sqrt(a): the root of the mantissa taken to 110 bits.  The root of
\* nan is nan and that of inf is inf; a negative a raises ValueError.
root_shift(a) == 110 - bit_length(a.m) + ((a.e - (110 - bit_length(a.m))) % 2)
fsqrt(a) ==
    IF raises(a) \/ a = NaN \/ a = PosInf THEN a
    ELSE IF a.sign < 0 THEN ValueError
    ELSE IF a.sign = 0 THEN Zero
    ELSE Only({fl(1, r, (a.e - root_shift(a)) \div 2, mul(r, r) # shl(a.m, root_shift(a))) :
                 r \in {isqrt(shl(a.m, root_shift(a)))}})

\* abs(a) * 10^digits rounded to a whole number, half to even.
round_scaled(a, digits) == round_at(mul(a.m, nat(10 ^ digits)), -a.e, FALSE)

\* round(a, digits): the decimal of that many digits nearest to a, half to
\* even, and the double nearest to that decimal; nan and the infinities
\* are returned as they are.
round(a, digits) ==
    IF a.sign = 0 \/ a.e >= 0 THEN a
    ELSE Only({IF n = <<>> THEN Zero
               ELSE Only({fl(a.sign, qr.q, -100, qr.inexact) :
                            qr \in {div(shl(n, 100), nat(10 ^ digits))}}) :
               n \in {round_scaled(a, digits)}})


\* ------------------------------------------------------------------------
\* math.exp and ** of the C library
\* ------------------------------------------------------------------------
One == float(1)

\* The place of the highest bit of a: abs(a) lies in [2^(top - 1), 2^top).
top(a) == a.e + bit_length(a.m)

\* The double sign * m * 2^e of the tuple <<sign, four digits of m, e>>.
dbl(t) == IF t[1] = 0 THEN Zero ELSE [sign |-> t[1], m |-> SubSeq(t, 2, 5), e |-> t[6]]

\* The constants of the C library's exp (glibc 2.36, __exp_data): N = 128,
\* InvLn2N = N / ln 2, Shift = 1.5 * 2^52, -ln 2 / N in two parts, and the
\* coefficients of the polynomial for exp(r) - 1 - r.
InvLn2N == dbl(<<1, 766, 5294, 5238, 1477, -45>>)
Shift == dbl(<<1, 0, 0, 0, 1536, 0>>)
NegLn2hiN == dbl(<<-1, 0, 15336, 9263, 1419, -60>>)
NegLn2loN == dbl(<<-1, 15162, 12920, 14763, 1853, -99>>)
exp_C2 == dbl(<<1, 15805, 16383, 16383, 2047, -54>>)
exp_C3 == dbl(<<1, 5180, 5461, 5461, 1365, -55>>)
exp_C4 == dbl(<<1, 11153, 15452, 5468, 1365, -57>>)
exp_C5 == dbl(<<1, 4119, 7827, 4374, 1092, -59>>)

\* Row i + 1 holds, for 2^(i/N), its tail and its double: 2^(i/N) is the
\* double times 1 + tail.
exp_tab ==
    <<<<<<0, 0, 0, 0, 0, 0>>, <<1, 0, 0, 0, 1024, -52>>>>,
      <<<<1, 16238, 10786, 13553, 1742, -106>>, <<1, 13109, 10220, 9178, 1029, -52>>>>,
      <<<<-1, 7261, 13155, 313, 1112, -108>>, <<1, 97, 14814, 2467, 1035, -52>>>>,
      <<<<-1, 9937, 541, 10145, 1047, -106>>, <<1, 16261, 8633, 12638, 1040, -52>>>>,
      <<<<1, 13843, 5535, 9507, 1844, -107>>, <<1, 1396, 3158, 6925, 1046, -52>>>>,
      <<<<-1, 3834, 4070, 10242, 1779, -107>>, <<1, 14046, 10103, 1714, 1052, -52>>>>,
      <<<<1, 2145, 1947, 13542, 1085, -109>>, <<1, 7112, 8662, 13393, 1057, -52>>>>,
      <<<<1, 5017, 11471, 15941, 1064, -106>>, <<1, 13187, 11035, 9196, 1063, -52>>>>,
      <<<<1, 15213, 13837, 10853, 1510, -106>>, <<1, 2319, 13286, 5510, 1069, -52>>>>,
      <<<<1, 12284, 3063, 4521, 1965, -107>>, <<1, 2039, 11721, 2338, 1075, -52>>>>,
      <<<<1, 7377, 190, 9175, 1967, -112>>, <<1, 4514, 2895, 16067, 1080, -52>>>>,
      <<<<-1, 11787, 9793, 13128, 1664, -109>>, <<1, 4891, 16379, 13930, 1086, -52>>>>,
      <<<<-1, 15630, 10430, 9506, 1365, -106>>, <<1, 6993, 73, 12317, 1092, -52>>>>,
      <<<<-1, 10837, 12603, 3832, 1056, -110>>, <<1, 12748, 432, 11228, 1098, -52>>>>,
      <<<<-1, 13334, 10071, 4667, 1138, -106>>, <<1, 11744, 15012, 10666, 1104, -52>>>>,
      <<<<1, 5551, 9585, 15934, 1076, -107>>, <<1, 3665, 8854, 10636, 1110, -52>>>>,
      <<<<-1, 4936, 10902, 12638, 1030, -107>>, <<1, 4475, 12789, 11139, 1116, -52>>>>,
      <<<<-1, 12861, 6008, 16133, 1991, -107>>, <<1, 3562, 8754, 12179, 1122, -52>>>>,
      <<<<1, 5055, 15437, 6339, 1762, -107>>, <<1, 2933, 11711, 13758, 1128, -52>>>>,
      <<<<-1, 11046, 6215, 6599, 1462, -106>>, <<1, 7380, 4113, 15880, 1134, -52>>>>,
      <<<<1, 12128, 14568, 3955, 1723, -106>>, <<1, 14762, 1442, 2163, 1141, -52>>>>,
      <<<<-1, 14493, 11800, 14380, 2041, -107>>, <<1, 6429, 3059, 5378, 1147, -52>>>>,
      <<<<1, 909, 4763, 13332, 1691, -107>>, <<1, 3286, 8586, 9144, 1153, -52>>>>,
      <<<<1, 1149, 912, 8283, 1054, -107>>, <<1, 7318, 1527, 13465, 1159, -52>>>>,
      <<<<1, 10388, 3746, 12254, 1443, -106>>, <<1, 8760, 14805, 1958, 1166, -52>>>>,
      <<<<1, 2173, 2513, 8591, 1495, -107>>, <<1, 9791, 16074, 7396, 1172, -52>>>>,
      <<<<1, 10226, 8319, 12985, 1041, -107>>, <<1, 15581, 6025, 13398, 1178, -52>>>>,
      <<<<-1, 2142, 15812, 1971, 1454, -106>>, <<1, 9089, 2005, 3582, 1185, -52>>>>,
      <<<<1, 11057, 13350, 15894, 1213, -107>>, <<1, 7905, 5247, 10719, 1191, -52>>>>,
      <<<<-1, 16378, 10686, 6577, 1864, -112>>, <<1, 6544, 875, 2045, 1198, -52>>>>,
      <<<<1, 2740, 2096, 14375, 1741, -107>>, <<1, 779, 7056, 10330, 1204, -52>>>>,
      <<<<1, 2959, 10043, 2344, 1925, -109>>, <<1, 12118, 9464, 2810, 1211, -52>>>>,
      <<<<1, 11190, 14018, 5972, 1235, -107>>, <<1, 14101, 10438, 12256, 1217, -52>>>>,
      <<<<1, 13388, 2737, 8222, 1424, -107>>, <<1, 6193, 12595, 5903, 1224, -52>>>>,
      <<<<1, 14410, 14159, 5013, 2039, -107>>, <<1, 5887, 2448, 139, 1231, -52>>>>,
      <<<<-1, 6916, 11833, 14339, 1448, -107>>, <<1, 8177, 15946, 11349, 1237, -52>>>>,
      <<<<-1, 4200, 12589, 11996, 1170, -106>>, <<1, 10699, 7402, 6771, 1244, -52>>>>,
      <<<<-1, 11662, 11588, 16257, 1601, -106>>, <<1, 6246, 13335, 2790, 1251, -52>>>>,
      <<<<-1, 14034, 14928, 7811, 1140, -108>>, <<1, 8183, 5014, 15795, 1257, -52>>>>,
      <<<<-1, 6933, 3896, 4507, 1606, -106>>, <<1, 10469, 3150, 13020, 1264, -52>>>>,
      <<<<1, 3181, 7337, 13450, 1383, -107>>, <<1, 13346, 12360, 10852, 1271, -52>>>>,
      <<<<-1, 10634, 10401, 9735, 1220, -106>>, <<1, 28, 4786, 9296, 1278, -52>>>>,
      <<<<-1, 2395, 8286, 14580, 1577, -110>>, <<1, 11818, 2012, 8354, 1285, -52>>>>,
      <<<<-1, 6683, 7462, 2486, 1803, -108>>, <<1, 10391, 9538, 8029, 1292, -52>>>>,
      <<<<1, 11281, 778, 16086, 1240, -111>>, <<1, 2349, 390, 8326, 1299, -52>>>>,
      <<<<1, 9455, 11289, 8339, 1433, -106>>, <<1, 87, 13428, 9246, 1306, -52>>>>,
      <<<<1, 889, 10884, 3613, 1971, -109>>, <<1, 15568, 5892, 10795, 1313, -52>>>>,
      <<<<1, 4656, 15420, 14563, 1279, -106>>, <<1, 5086, 863, 12975, 1320, -52>>>>,
      <<<<1, 12208, 11754, 3307, 1444, -108>>, <<1, 10791, 5336, 15789, 1327, -52>>>>,
      <<<<1, 8311, 11603, 7134, 1223, -106>>, <<1, 7437, 10231, 2857, 1335, -52>>>>,
      <<<<-1, 9102, 454, 832, 2021, -107>>, <<1, 11431, 6772, 6951, 1342, -52>>>>,
      <<<<-1, 9033, 12878, 11469, 1527, -107>>, <<1, 9794, 2877, 11690, 1349, -52>>>>,
      <<<<-1, 14431, 13372, 11371, 1591, -108>>, <<1, 3970, 6773, 693, 1357, -52>>>>,
      <<<<-1, 7414, 12781, 9326, 1412, -107>>, <<1, 4623, 10614, 6732, 1364, -52>>>>,
      <<<<1, 6030, 9207, 4177, 1229, -106>>, <<1, 10202, 6868, 13427, 1371, -52>>>>,
      <<<<1, 6917, 15914, 2930, 1766, -108>>, <<1, 2045, 4703, 4397, 1379, -52>>>>,
      <<<<1, 5129, 2161, 15902, 1048, -106>>, <<1, 5161, 13601, 12413, 1386, -52>>>>,
      <<<<1, 1770, 103, 14421, 1329, -112>>, <<1, 1719, 10597, 4712, 1394, -52>>>>,
      <<<<1, 53, 11667, 11874, 1292, -106>>, <<1, 8520, 5812, 14065, 1401, -52>>>>,
      <<<<-1, 13983, 1637, 1190, 1849, -107>>, <<1, 7177, 9691, 7707, 1409, -52>>>>,
      <<<<-1, 3496, 12221, 15443, 1804, -107>>, <<1, 5509, 233, 2027, 1417, -52>>>>,
      <<<<-1, 10670, 9391, 14216, 1300, -107>>, <<1, 800, 4915, 13411, 1424, -52>>>>,
      <<<<-1, 6232, 8537, 11735, 1267, -106>>, <<1, 8741, 2388, 9096, 1432, -52>>>>,
      <<<<1, 6500, 504, 2728, 1476, -110>>, <<1, 10611, 4402, 5469, 1440, -52>>>>,
      <<<<-1, 8744, 15736, 16123, 1260, -106>>, <<1, 15309, 6652, 2534, 1448, -52>>>>,
      <<<<-1, 14722, 7378, 10968, 1668, -109>>, <<1, 6847, 5167, 295, 1456, -52>>>>,
      <<<<-1, 10734, 8630, 16123, 1241, -109>>, <<1, 6703, 12692, 15139, 1463, -52>>>>,
      <<<<-1, 2129, 4994, 981, 1079, -107>>, <<1, 5252, 9542, 14303, 1471, -52>>>>,
      <<<<-1, 16079, 14696, 13895, 1543, -108>>, <<1, 8052, 9137, 14174, 1479, -52>>>>,
      <<<<-1, 15792, 557, 9388, 1467, -107>>, <<1, 372, 8854, 14756, 1487, -52>>>>,
      <<<<-1, 9866, 14679, 4897, 1414, -107>>, <<1, 10185, 6409, 16053, 1495, -52>>>>,
      <<<<1, 5331, 14375, 3253, 1063, -106>>, <<1, 7487, 16249, 1684, 1504, -52>>>>,
      <<<<-1, 9501, 9526, 11723, 1740, -108>>, <<1, 391, 4012, 4423, 1512, -52>>>>,
      <<<<1, 107, 4511, 4053, 1339, -106>>, <<1, 306, 1219, 7888, 1520, -52>>>>,
      <<<<1, 11349, 12121, 15898, 1402, -109>>, <<1, 3682, 6973, 12083, 1528, -52>>>>,
      <<<<-1, 3906, 16079, 7250, 1576, -107>>, <<1, 6674, 4344, 629, 1537, -52>>>>,
      <<<<-1, 14132, 1260, 7023, 1242, -106>>, <<1, 3603, 9523, 6297, 1545, -52>>>>,
      <<<<-1, 16158, 10343, 10307, 1047, -107>>, <<1, 1965, 6287, 12708, 1553, -52>>>>,
      <<<<-1, 5998, 8649, 1293, 1333, -106>>, <<1, 4845, 11538, 3481, 1562, -52>>>>,
      <<<<1, 2560, 11322, 5749, 1067, -106>>, <<1, 9881, 9769, 11389, 1570, -52>>>>,
      <<<<1, 10932, 1987, 13052, 1901, -107>>, <<1, 8411, 2218, 3668, 1579, -52>>>>,
      <<<<-1, 10239, 13079, 9737, 1389, -109>>, <<1, 1164, 6869, 13089, 1587, -52>>>>,
      <<<<1, 8004, 10189, 10293, 1789, -108>>, <<1, 14134, 9301, 6889, 1596, -52>>>>,
      <<<<-1, 15747, 7288, 4602, 1218, -106>>, <<1, 16326, 11847, 1456, 1605, -52>>>>,
      <<<<-1, 7721, 11696, 7048, 1898, -110>>, <<1, 1509, 823, 13179, 1613, -52>>>>,
      <<<<-1, 14681, 12866, 16279, 1800, -109>>, <<1, 4623, 12065, 9292, 1622, -52>>>>,
      <<<<-1, 14762, 3027, 13362, 1168, -106>>, <<1, 3664, 16249, 6185, 1631, -52>>>>,
      <<<<-1, 3659, 7578, 9933, 1394, -107>>, <<1, 1978, 808, 3863, 1640, -52>>>>,
      <<<<1, 3623, 11847, 16322, 1131, -108>>, <<1, 12432, 2703, 2328, 1649, -52>>>>,
      <<<<1, 13243, 1065, 9054, 1908, -109>>, <<1, 8995, 10124, 1585, 1658, -52>>>>,
      <<<<-1, 8803, 2440, 4162, 1521, -107>>, <<1, 9573, 11639, 1639, 1667, -52>>>>,
      <<<<1, 12757, 3976, 2158, 1735, -107>>, <<1, 11571, 12584, 2494, 1676, -52>>>>,
      <<<<-1, 15125, 3826, 15645, 1134, -106>>, <<1, 9565, 2296, 4155, 1685, -52>>>>,
      <<<<1, 12754, 13240, 793, 1075, -106>>, <<1, 13144, 3266, 6625, 1694, -52>>>>,
      <<<<1, 6835, 14797, 6214, 1306, -107>>, <<1, 15807, 5607, 9909, 1703, -52>>>>,
      <<<<-1, 7604, 7738, 15577, 1207, -107>>, <<1, 13178, 16207, 14011, 1712, -52>>>>,
      <<<<1, 13191, 2860, 10105, 1798, -107>>, <<1, 5037, 9579, 2553, 1722, -52>>>>,
      <<<<-1, 6650, 11079, 14580, 1054, -106>>, <<1, 13926, 9782, 8306, 1731, -52>>>>,
      <<<<-1, 11962, 7026, 15765, 1392, -110>>, <<1, 5627, 8508, 14891, 1740, -52>>>>,
      <<<<-1, 13888, 13979, 227, 1065, -106>>, <<1, 6458, 14229, 5928, 1750, -52>>>>,
      <<<<-1, 4916, 8886, 12099, 1589, -109>>, <<1, 7751, 3053, 14191, 1759, -52>>>>,
      <<<<-1, 2613, 11618, 11814, 1147, -106>>, <<1, 1610, 644, 6915, 1769, -52>>>>,
      <<<<1, 7629, 10623, 15728, 1343, -108>>, <<1, 466, 303, 489, 1779, -52>>>>,
      <<<<-1, 6316, 10826, 8127, 1135, -106>>, <<1, 7689, 12124, 11301, 1788, -52>>>>,
      <<<<1, 3251, 700, 10979, 1243, -108>>, <<1, 4764, 13845, 6589, 1798, -52>>>>,
      <<<<1, 15764, 12927, 13093, 1976, -107>>, <<1, 4218, 16383, 2741, 1808, -52>>>>,
      <<<<1, 6572, 1061, 2301, 1336, -107>>, <<1, 4427, 14687, 16146, 1817, -52>>>>,
      <<<<1, 6759, 8504, 6899, 1267, -109>>, <<1, 10165, 4123, 14041, 1827, -52>>>>,
      <<<<1, 6504, 12872, 12998, 1498, -109>>, <<1, 4201, 13246, 12813, 1837, -52>>>>,
      <<<<-1, 13778, 3890, 8584, 1058, -107>>, <<1, 1018, 5495, 12469, 1847, -52>>>>,
      <<<<-1, 14959, 16383, 5587, 2027, -107>>, <<1, 2428, 10270, 13012, 1857, -52>>>>,
      <<<<-1, 10569, 8662, 6883, 1027, -106>>, <<1, 2546, 8246, 14448, 1867, -52>>>>,
      <<<<1, 1959, 6388, 14426, 1320, -108>>, <<1, 9351, 13294, 397, 1878, -52>>>>,
      <<<<-1, 8719, 256, 6626, 1188, -107>>, <<1, 920, 6950, 3633, 1888, -52>>>>,
      <<<<1, 4780, 5894, 9485, 1942, -107>>, <<1, 12933, 3948, 7776, 1898, -52>>>>,
      <<<<1, 11083, 12293, 9626, 1294, -107>>, <<1, 13408, 3078, 12831, 1908, -52>>>>,
      <<<<-1, 15903, 7888, 4624, 1205, -107>>, <<1, 7007, 3566, 2419, 1919, -52>>>>,
      <<<<-1, 3529, 11548, 11155, 1610, -107>>, <<1, 8489, 5078, 9313, 1929, -52>>>>,
      <<<<1, 2259, 234, 8262, 1325, -108>>, <<1, 16374, 7724, 750, 1940, -52>>>>,
      <<<<1, 12913, 1653, 7877, 1265, -107>>, <<1, 3203, 12061, 9503, 1950, -52>>>>,
      <<<<-1, 4592, 16206, 12584, 2045, -107>>, <<1, 4314, 2706, 2810, 1961, -52>>>>,
      <<<<-1, 13437, 2189, 10638, 1899, -107>>, <<1, 10225, 13881, 13442, 1971, -52>>>>,
      <<<<1, 8200, 1704, 15300, 1968, -107>>, <<1, 6695, 14725, 8638, 1982, -52>>>>,
      <<<<1, 11058, 3751, 14668, 1290, -107>>, <<1, 14999, 7598, 4787, 1993, -52>>>>,
      <<<<1, 1518, 1862, 2707, 1689, -107>>, <<1, 1344, 11705, 1893, 2004, -52>>>>,
      <<<<-1, 9197, 4335, 15278, 1933, -107>>, <<1, 15892, 13938, 16346, 2014, -52>>>>,
      <<<<1, 3485, 13895, 5044, 1506, -108>>, <<1, 4312, 1658, 15384, 2025, -52>>>>,
      <<<<1, 3209, 1411, 7188, 1217, -110>>, <<1, 12785, 11837, 15394, 2036, -52>>>>>>

\* The constants of the logarithm in the C library's pow (__pow_log_data):
\* ln 2 in two parts and the coefficients A of the polynomial for log1p.
Ln2hi == dbl(<<1, 14336, 15336, 9263, 1419, -53>>)
Ln2lo == dbl(<<1, 10032, 3869, 13689, 1980, -97>>)
log_A0 == dbl(<<-1, 0, 0, 0, 1024, -53>>)
log_A1 == dbl(<<-1, 5472, 5461, 5461, 1365, -53>>)
log_A2 == dbl(<<1, 6, 0, 0, 1024, -53>>)
log_A3 == dbl(<<1, 5454, 9573, 6553, 1638, -53>>)
log_A4 == dbl(<<-1, 9338, 5286, 5461, 1365, -53>>)
log_A5 == dbl(<<-1, 1513, 11553, 5561, 1170, -52>>)
log_A6 == dbl(<<1, 16323, 11416, 696, 1024, -52>>)

\* Row i + 1 holds, for the i-th point c: 1/c, log(c) and the tail of log(c).
pow_log_tab ==
    <<<<<<1, 0, 0, 0, 1448, -52>>, <<-1, 2048, 2791, 2095, 1419, -54>>, <<1, 5760, 8413, 578, 1709, -100>>>>,
      <<<<1, 0, 0, 0, 1440, -52>>, <<-1, 2048, 15712, 7131, 1396, -54>>, <<-1, 14112, 9091, 4237, 1833, -98>>>>,
      <<<<1, 0, 0, 0, 1432, -52>>, <<-1, 6144, 7445, 10097, 1373, -54>>, <<-1, 4205, 5849, 10829, 1240, -97>>>>,
      <<<<1, 0, 0, 0, 1424, -52>>, <<-1, 14336, 7351, 10968, 1350, -54>>, <<-1, 10197, 15041, 3657, 1441, -101>>>>,
      <<<<1, 0, 0, 0, 1416, -52>>, <<-1, 14336, 5597, 9721, 1327, -54>>, <<-1, 16096, 3236, 13977, 1286, -99>>>>,
      <<<<1, 0, 0, 0, 1408, -52>>, <<-1, 8192, 2161, 6332, 1304, -54>>, <<1, 1228, 8498, 756, 1270, -98>>>>,
      <<<<1, 0, 0, 0, 1400, -52>>, <<-1, 10240, 6682, 776, 1281, -54>>, <<1, 2874, 13832, 12094, 1808, -102>>>>,
      <<<<1, 0, 0, 0, 1392, -52>>, <<-1, 2048, 5541, 9413, 1257, -54>>, <<1, 5216, 6470, 7272, 1068, -97>>>>,
      <<<<1, 0, 0, 0, 1384, -52>>, <<-1, 0, 10850, 15833, 1233, -54>>, <<1, 146, 4886, 5341, 1366, -97>>>>,
      <<<<1, 0, 0, 0, 1376, -52>>, <<-1, 8192, 11140, 3627, 1210, -54>>, <<1, 11224, 9948, 12777, 1438, -97>>>>,
      <<<<1, 0, 0, 0, 1368, -52>>, <<-1, 2048, 3962, 5537, 1186, -54>>, <<1, 12351, 6974, 8523, 1394, -98>>>>,
      <<<<1, 0, 0, 0, 1368, -52>>, <<-1, 2048, 3962, 5537, 1186, -54>>, <<1, 12351, 6974, 8523, 1394, -98>>>>,
      <<<<1, 0, 0, 0, 1360, -52>>, <<-1, 14336, 12093, 5151, 1162, -54>>, <<-1, 6774, 8527, 8770, 1430, -98>>>>,
      <<<<1, 0, 0, 0, 1352, -52>>, <<-1, 6144, 1446, 2444, 1138, -54>>, <<-1, 5124, 9117, 15302, 2027, -98>>>>,
      <<<<1, 0, 0, 0, 1344, -52>>, <<-1, 10240, 11950, 13770, 1113, -54>>, <<1, 10480, 3594, 15459, 1991, -98>>>>,
      <<<<1, 0, 0, 0, 1336, -52>>, <<-1, 2048, 9913, 6335, 1089, -54>>, <<-1, 6758, 13333, 3151, 1450, -97>>>>,
      <<<<1, 0, 0, 0, 1328, -52>>, <<-1, 4096, 2510, 12878, 1064, -54>>, <<-1, 782, 15312, 16103, 1818, -99>>>>,
      <<<<1, 0, 0, 0, 1320, -52>>, <<-1, 4096, 4819, 601, 1040, -54>>, <<-1, 11647, 15312, 11145, 1037, -100>>>>,
      <<<<1, 0, 0, 0, 1320, -52>>, <<-1, 4096, 4819, 601, 1040, -54>>, <<-1, 11647, 15312, 11145, 1037, -100>>>>,
      <<<<1, 0, 0, 0, 1312, -52>>, <<-1, 0, 13689, 4486, 2030, -55>>, <<1, 15495, 11876, 12970, 1877, -99>>>>,
      <<<<1, 0, 0, 0, 1304, -52>>, <<-1, 8192, 12145, 2780, 1980, -55>>, <<1, 12068, 12826, 11129, 1737, -97>>>>,
      <<<<1, 0, 0, 0, 1296, -52>>, <<-1, 12288, 14507, 12406, 1929, -55>>, <<-1, 16144, 4351, 13557, 1483, -98>>>>,
      <<<<1, 0, 0, 0, 1288, -52>>, <<-1, 0, 11583, 534, 1879, -55>>, <<1, 10267, 12073, 10523, 1134, -97>>>>,
      <<<<1, 0, 0, 0, 1280, -52>>, <<-1, 8192, 7786, 16252, 1827, -55>>, <<1, 1076, 8830, 5366, 1502, -97>>>>,
      <<<<1, 0, 0, 0, 1280, -52>>, <<-1, 8192, 7786, 16252, 1827, -55>>, <<1, 1076, 8830, 5366, 1502, -97>>>>,
      <<<<1, 0, 0, 0, 1272, -52>>, <<-1, 4096, 4278, 10343, 1776, -55>>, <<1, 14223, 1582, 11011, 1619, -98>>>>,
      <<<<1, 0, 0, 0, 1264, -52>>, <<-1, 0, 14851, 15508, 1724, -55>>, <<1, 4198, 16182, 9779, 1683, -104>>>>,
      <<<<1, 0, 0, 0, 1256, -52>>, <<-1, 12288, 16266, 15297, 1672, -55>>, <<-1, 490, 12571, 1613, 1379, -97>>>>,
      <<<<1, 0, 0, 0, 1256, -52>>, <<-1, 12288, 16266, 15297, 1672, -55>>, <<-1, 490, 12571, 1613, 1379, -97>>>>,
      <<<<1, 0, 0, 0, 1248, -52>>, <<-1, 4096, 13265, 9641, 1620, -55>>, <<-1, 5347, 4871, 7568, 1716, -97>>>>,
      <<<<1, 0, 0, 0, 1240, -52>>, <<-1, 4096, 5251, 14854, 1567, -55>>, <<1, 14857, 16239, 7159, 1775, -97>>>>,
      <<<<1, 0, 0, 0, 1232, -52>>, <<-1, 8192, 2115, 14480, 1514, -55>>, <<1, 2648, 2381, 14599, 1782, -97>>>>,
      <<<<1, 0, 0, 0, 1232, -52>>, <<-1, 8192, 2115, 14480, 1514, -55>>, <<1, 2648, 2381, 14599, 1782, -97>>>>,
      <<<<1, 0, 0, 0, 1224, -52>>, <<-1, 4096, 7271, 8446, 1461, -55>>, <<-1, 8806, 3787, 1706, 1081, -98>>>>,
      <<<<1, 0, 0, 0, 1216, -52>>, <<-1, 4096, 670, 13063, 1407, -55>>, <<-1, 4153, 15425, 9273, 1959, -98>>>>,
      <<<<1, 0, 0, 0, 1216, -52>>, <<-1, 4096, 670, 13063, 1407, -55>>, <<-1, 4153, 15425, 9273, 1959, -98>>>>,
      <<<<1, 0, 0, 0, 1208, -52>>, <<-1, 12288, 3718, 11870, 1353, -55>>, <<-1, 7055, 29, 10425, 1079, -97>>>>,
      <<<<1, 0, 0, 0, 1200, -52>>, <<-1, 0, 13102, 4790, 1299, -55>>, <<1, 14396, 1237, 3094, 1475, -98>>>>,
      <<<<1, 0, 0, 0, 1200, -52>>, <<-1, 0, 13102, 4790, 1299, -55>>, <<1, 14396, 1237, 3094, 1475, -98>>>>,
      <<<<1, 0, 0, 0, 1192, -52>>, <<-1, 4096, 122, 8130, 1244, -55>>, <<1, 5178, 13469, 2148, 1118, -100>>>>,
      <<<<1, 0, 0, 0, 1184, -52>>, <<-1, 12288, 8319, 5423, 1189, -55>>, <<-1, 1032, 7623, 4865, 1315, -97>>>>,
      <<<<1, 0, 0, 0, 1176, -52>>, <<-1, 8192, 5309, 12973, 1133, -55>>, <<-1, 9110, 8262, 2625, 1952, -97>>>>,
      <<<<1, 0, 0, 0, 1176, -52>>, <<-1, 8192, 5309, 12973, 1133, -55>>, <<-1, 9110, 8262, 2625, 1952, -97>>>>,
      <<<<1, 0, 0, 0, 1168, -52>>, <<-1, 4096, 13122, 14311, 1077, -55>>, <<1, 7156, 9121, 6504, 1690, -99>>>>,
      <<<<1, 0, 0, 0, 1168, -52>>, <<-1, 4096, 13122, 14311, 1077, -55>>, <<1, 7156, 9121, 6504, 1690, -99>>>>,
      <<<<1, 0, 0, 0, 1160, -52>>, <<-1, 8192, 1903, 2323, 2043, -56>>, <<-1, 13298, 12940, 5445, 1373, -97>>>>,
      <<<<1, 0, 0, 0, 1152, -52>>, <<-1, 0, 14508, 12406, 1929, -56>>, <<1, 60, 11200, 706, 1677, -97>>>>,
      <<<<1, 0, 0, 0, 1152, -52>>, <<-1, 0, 14508, 12406, 1929, -56>>, <<1, 60, 11200, 706, 1677, -97>>>>,
      <<<<1, 0, 0, 0, 1144, -52>>, <<-1, 0, 15727, 9544, 1815, -56>>, <<-1, 15878, 8574, 1397, 1859, -98>>>>,
      <<<<1, 0, 0, 0, 1136, -52>>, <<-1, 8192, 10539, 9939, 1700, -56>>, <<1, 10952, 8558, 4958, 1358, -97>>>>,
      <<<<1, 0, 0, 0, 1136, -52>>, <<-1, 8192, 10539, 9939, 1700, -56>>, <<1, 10952, 8558, 4958, 1358, -97>>>>,
      <<<<1, 0, 0, 0, 1128, -52>>, <<-1, 8192, 6342, 13405, 1584, -56>>, <<1, 5736, 13501, 660, 1247, -98>>>>,
      <<<<1, 0, 0, 0, 1128, -52>>, <<-1, 8192, 6342, 13405, 1584, -56>>, <<1, 5736, 13501, 660, 1247, -98>>>>,
      <<<<1, 0, 0, 0, 1120, -52>>, <<-1, 8192, 11157, 3368, 1468, -56>>, <<-1, 13274, 9421, 13180, 1445, -97>>>>,
      <<<<1, 0, 0, 0, 1112, -52>>, <<-1, 8192, 15384, 12403, 1350, -56>>, <<1, 7767, 1817, 9654, 1984, -98>>>>,
      <<<<1, 0, 0, 0, 1112, -52>>, <<-1, 8192, 15384, 12403, 1350, -56>>, <<1, 7767, 1817, 9654, 1984, -98>>>>,
      <<<<1, 0, 0, 0, 1104, -52>>, <<-1, 8192, 6255, 7545, 1232, -56>>, <<1, 5087, 13284, 11692, 1815, -97>>>>,
      <<<<1, 0, 0, 0, 1104, -52>>, <<-1, 8192, 6255, 7545, 1232, -56>>, <<1, 5087, 13284, 11692, 1815, -97>>>>,
      <<<<1, 0, 0, 0, 1096, -52>>, <<-1, 0, 14990, 4974, 1113, -56>>, <<1, 8969, 6718, 1511, 1311, -98>>>>,
      <<<<1, 0, 0, 0, 1088, -52>>, <<-1, 0, 70, 8972, 1986, -57>>, <<1, 3729, 3290, 6632, 1878, -97>>>>,
      <<<<1, 0, 0, 0, 1088, -52>>, <<-1, 0, 70, 8972, 1986, -57>>, <<1, 3729, 3290, 6632, 1878, -97>>>>,
      <<<<1, 0, 0, 0, 1080, -52>>, <<-1, 0, 1126, 11735, 1744, -57>>, <<1, 12364, 5977, 10158, 1824, -98>>>>,
      <<<<1, 0, 0, 0, 1080, -52>>, <<-1, 0, 1126, 11735, 1744, -57>>, <<1, 12364, 5977, 10158, 1824, -98>>>>,
      <<<<1, 0, 0, 0, 1072, -52>>, <<-1, 0, 6347, 1423, 1501, -57>>, <<-1, 8686, 5066, 1123, 1855, -97>>>>,
      <<<<1, 0, 0, 0, 1072, -52>>, <<-1, 0, 6347, 1423, 1501, -57>>, <<-1, 8686, 5066, 1123, 1855, -97>>>>,
      <<<<1, 0, 0, 0, 1064, -52>>, <<-1, 0, 10235, 10363, 1255, -57>>, <<1, 16042, 5275, 11135, 1344, -100>>>>,
      <<<<1, 0, 0, 0, 1064, -52>>, <<-1, 0, 10235, 10363, 1255, -57>>, <<1, 16042, 5275, 11135, 1344, -100>>>>,
      <<<<1, 0, 0, 0, 1056, -52>>, <<-1, 0, 14816, 10672, 2016, -58>>, <<-1, 2532, 12792, 615, 1632, -97>>>>,
      <<<<1, 0, 0, 0, 1056, -52>>, <<-1, 0, 14816, 10672, 2016, -58>>, <<-1, 2532, 12792, 615, 1632, -97>>>>,
      <<<<1, 0, 0, 0, 1048, -52>>, <<-1, 0, 8022, 4528, 1518, -58>>, <<-1, 9785, 4074, 5449, 1571, -97>>>>,
      <<<<1, 0, 0, 0, 1040, -52>>, <<-1, 0, 1008, 2699, 2032, -59>>, <<-1, 9884, 6990, 10191, 1991, -102>>>>,
      <<<<1, 0, 0, 0, 1040, -52>>, <<-1, 0, 1008, 2699, 2032, -59>>, <<-1, 9884, 6990, 10191, 1991, -102>>>>,
      <<<<1, 0, 0, 0, 1032, -52>>, <<-1, 0, 11328, 678, 2040, -60>>, <<-1, 228, 14185, 9200, 1656, -98>>>>,
      <<<<1, 0, 0, 0, 1032, -52>>, <<-1, 0, 11328, 678, 2040, -60>>, <<-1, 228, 14185, 9200, 1656, -98>>>>,
      <<<<1, 0, 0, 0, 1024, -52>>, <<0, 0, 0, 0, 0, 0>>, <<0, 0, 0, 0, 0, 0>>>>,
      <<<<1, 0, 0, 0, 1024, -52>>, <<0, 0, 0, 0, 0, 0>>, <<0, 0, 0, 0, 0, 0>>>>,
      <<<<1, 0, 0, 0, 2032, -53>>, <<1, 0, 5668, 343, 1028, -59>>, <<-1, 11240, 9844, 14009, 1073, -98>>>>,
      <<<<1, 0, 0, 0, 2016, -53>>, <<1, 0, 8782, 1381, 1032, -58>>, <<-1, 14290, 7051, 1456, 1271, -97>>>>,
      <<<<1, 0, 0, 0, 2000, -53>>, <<1, 0, 8996, 4690, 1554, -58>>, <<-1, 3124, 2408, 2979, 1704, -97>>>>,
      <<<<1, 0, 0, 0, 1984, -53>>, <<1, 0, 10141, 5592, 1040, -57>>, <<1, 5971, 13255, 7173, 1092, -99>>>>,
      <<<<1, 0, 0, 0, 1968, -53>>, <<1, 0, 4280, 10989, 1305, -57>>, <<-1, 15656, 5879, 10039, 1797, -97>>>>,
      <<<<1, 0, 0, 0, 1952, -53>>, <<1, 0, 4735, 2721, 1573, -57>>, <<-1, 9853, 360, 6493, 1630, -98>>>>,
      <<<<1, 0, 0, 0, 1936, -53>>, <<1, 0, 14199, 14140, 1842, -57>>, <<-1, 10247, 8032, 3876, 1690, -98>>>>,
      <<<<1, 0, 0, 0, 1928, -53>>, <<1, 0, 27, 8988, 1978, -57>>, <<-1, 15227, 16164, 5092, 1924, -99>>>>,
      <<<<1, 0, 0, 0, 1912, -53>>, <<1, 8192, 1305, 13245, 1125, -56>>, <<-1, 7835, 6198, 9685, 1356, -97>>>>,
      <<<<1, 0, 0, 0, 1896, -53>>, <<1, 8192, 8007, 8026, 1263, -56>>, <<1, 3799, 5997, 1514, 1842, -97>>>>,
      <<<<1, 0, 0, 0, 1880, -53>>, <<1, 8192, 13918, 5540, 1402, -56>>, <<-1, 7454, 12660, 4195, 1818, -97>>>>,
      <<<<1, 0, 0, 0, 1872, -53>>, <<1, 0, 11179, 3376, 1472, -56>>, <<1, 11570, 9847, 10458, 1799, -101>>>>,
      <<<<1, 0, 0, 0, 1856, -53>>, <<1, 0, 13669, 13797, 1612, -56>>, <<1, 2010, 10997, 5571, 1220, -97>>>>,
      <<<<1, 0, 0, 0, 1840, -53>>, <<1, 8192, 14005, 11400, 1754, -56>>, <<-1, 10469, 12253, 2050, 1252, -98>>>>,
      <<<<1, 0, 0, 0, 1832, -53>>, <<1, 0, 1777, 1408, 1826, -56>>, <<1, 11475, 6506, 11548, 1425, -97>>>>,
      <<<<1, 0, 0, 0, 1816, -53>>, <<1, 8192, 3112, 13208, 1969, -56>>, <<-1, 1504, 16281, 1674, 1904, -97>>>>,
      <<<<1, 0, 0, 0, 1808, -53>>, <<1, 8192, 10095, 2323, 2042, -56>>, <<-1, 2813, 16004, 3428, 1357, -97>>>>,
      <<<<1, 0, 0, 0, 1792, -53>>, <<1, 8192, 2207, 14568, 1093, -55>>, <<1, 2034, 14516, 14220, 1147, -97>>>>,
      <<<<1, 0, 0, 0, 1784, -53>>, <<1, 12288, 14479, 8887, 1130, -55>>, <<1, 6452, 4322, 14564, 1833, -97>>>>,
      <<<<1, 0, 0, 0, 1768, -53>>, <<1, 0, 12826, 5648, 1204, -55>>, <<1, 13473, 11782, 5836, 1255, -99>>>>,
      <<<<1, 0, 0, 0, 1760, -53>>, <<1, 4096, 86, 8139, 1241, -55>>, <<1, 12937, 3373, 14978, 1419, -103>>>>,
      <<<<1, 0, 0, 0, 1744, -53>>, <<1, 12288, 3278, 5080, 1316, -55>>, <<1, 13944, 5110, 14229, 1376, -97>>>>,
      <<<<1, 0, 0, 0, 1736, -53>>, <<1, 12288, 4742, 15966, 1353, -55>>, <<1, 15815, 5541, 16014, 1420, -97>>>>,
      <<<<1, 0, 0, 0, 1720, -53>>, <<1, 4096, 14896, 13547, 1429, -55>>, <<1, 11896, 12528, 14514, 1651, -98>>>>,
      <<<<1, 0, 0, 0, 1712, -53>>, <<1, 12288, 11733, 296, 1468, -55>>, <<-1, 8673, 5744, 6366, 1348, -97>>>>,
      <<<<1, 0, 0, 0, 1704, -53>>, <<1, 4096, 5393, 6360, 1506, -55>>, <<-1, 773, 581, 8455, 1817, -98>>>>,
      <<<<1, 0, 0, 0, 1688, -53>>, <<1, 0, 11492, 11006, 1583, -55>>, <<-1, 11473, 11172, 5450, 1487, -99>>>>,
      <<<<1, 0, 0, 0, 1680, -53>>, <<1, 0, 13276, 9645, 1622, -55>>, <<1, 16239, 8835, 8837, 1532, -99>>>>,
      <<<<1, 0, 0, 0, 1664, -53>>, <<1, 8192, 12843, 16083, 1700, -55>>, <<-1, 8553, 344, 9269, 1564, -97>>>>,
      <<<<1, 0, 0, 0, 1656, -53>>, <<1, 4096, 7535, 7557, 1740, -55>>, <<-1, 8618, 15027, 6356, 1805, -99>>>>,
      <<<<1, 0, 0, 0, 1648, -53>>, <<1, 8192, 8431, 2163, 1780, -55>>, <<-1, 4790, 9552, 15429, 1874, -97>>>>,
      <<<<1, 0, 0, 0, 1640, -53>>, <<1, 4096, 7104, 16316, 1819, -55>>, <<-1, 11218, 5720, 1836, 1147, -100>>>>,
      <<<<1, 0, 0, 0, 1624, -53>>, <<1, 4096, 850, 5083, 1900, -55>>, <<-1, 12341, 7254, 12975, 1727, -97>>>>,
      <<<<1, 0, 0, 0, 1616, -53>>, <<1, 4096, 16284, 12527, 1940, -55>>, <<1, 13360, 263, 8822, 1156, -103>>>>,
      <<<<1, 0, 0, 0, 1608, -53>>, <<1, 0, 4980, 6878, 1981, -55>>, <<-1, 3601, 5870, 4438, 1672, -103>>>>,
      <<<<1, 0, 0, 0, 1600, -53>>, <<1, 12288, 13006, 4550, 2022, -55>>, <<1, 7984, 10291, 16076, 1778, -98>>>>,
      <<<<1, 0, 0, 0, 1584, -53>>, <<1, 6144, 309, 4998, 1052, -54>>, <<1, 3729, 7093, 3505, 1575, -100>>>>,
      <<<<1, 0, 0, 0, 1576, -53>>, <<1, 8192, 7557, 726, 1073, -54>>, <<1, 10985, 6387, 2225, 1478, -97>>>>,
      <<<<1, 0, 0, 0, 1568, -53>>, <<1, 10240, 2207, 14568, 1093, -54>>, <<-1, 12316, 3735, 4326, 1800, -97>>>>,
      <<<<1, 0, 0, 0, 1560, -53>>, <<1, 14336, 11955, 13772, 1114, -54>>, <<1, 5761, 7828, 11487, 1766, -97>>>>,
      <<<<1, 0, 0, 0, 1552, -53>>, <<1, 10240, 3433, 14742, 1135, -54>>, <<1, 15799, 1310, 11989, 1833, -97>>>>,
      <<<<1, 0, 0, 0, 1544, -53>>, <<1, 14336, 13370, 1110, 1157, -54>>, <<1, 15082, 10522, 15851, 1697, -99>>>>,
      <<<<1, 0, 0, 0, 1528, -53>>, <<1, 4096, 13170, 12039, 1199, -54>>, <<1, 1268, 10560, 4004, 1703, -97>>>>,
      <<<<1, 0, 0, 0, 1520, -53>>, <<1, 8192, 1869, 3870, 1221, -54>>, <<-1, 15544, 3204, 10157, 1592, -97>>>>,
      <<<<1, 0, 0, 0, 1512, -53>>, <<1, 4096, 6904, 13943, 1242, -54>>, <<1, 14280, 965, 11483, 1115, -98>>>>,
      <<<<1, 0, 0, 0, 1504, -53>>, <<1, 12288, 7372, 9511, 1264, -54>>, <<1, 15708, 6170, 13643, 1550, -98>>>>,
      <<<<1, 0, 0, 0, 1496, -53>>, <<1, 10240, 3927, 6978, 1286, -54>>, <<1, 8349, 12867, 878, 1593, -99>>>>,
      <<<<1, 0, 0, 0, 1488, -53>>, <<1, 2048, 2503, 6364, 1308, -54>>, <<-1, 5749, 9631, 15584, 1993, -97>>>>,
      <<<<1, 0, 0, 0, 1480, -53>>, <<1, 12288, 14428, 7689, 1330, -54>>, <<-1, 6308, 11307, 2193, 1928, -97>>>>,
      <<<<1, 0, 0, 0, 1472, -53>>, <<1, 8192, 7394, 10976, 1352, -54>>, <<1, 1881, 1427, 9992, 1967, -97>>>>,
      <<<<1, 0, 0, 0, 1464, -53>>, <<1, 4096, 3875, 16245, 1374, -54>>, <<1, 239, 14709, 7902, 2027, -98>>>>,
      <<<<1, 0, 0, 0, 1456, -53>>, <<1, 8192, 15717, 7133, 1397, -54>>, <<-1, 9692, 8849, 12960, 1666, -99>>>>>>

\* The C library's exp, in its steps.  exp_reduce: x = k * ln 2 / N + r for
\* the int k nearest to x * N / ln 2, which x * InvLn2N + Shift holds in its
\* last bits; xtail is added to r.  exp_poly: tmp = tail + r + r^2 * (exp_C2 +
\* r * exp_C3) + r^4 * (exp_C4 + r * exp_C5), and scale = 2^(k/N) without its tail.
\* exp_k: the int k held in the last bits of kdr = x * InvLn2N + Shift.
exp_k(kdr) ==
    IF cmp(kdr.m, Shift.m) >= 0 THEN int(sub(kdr.m, Shift.m))
    ELSE -int(sub(Shift.m, kdr.m))
exp_reduce(x, xtail) ==
    Only({Only({[k |-> k, r |-> fadd(fma(kd, NegLn2loN, fma(kd, NegLn2hiN, x)), xtail)] :
                  kd \in {float(k)}}) :
            k \in {Only({exp_k(kdr) : kdr \in {fma(x, InvLn2N, Shift)}})}})
exp_square(s) ==
    [k |-> s.k, r |-> s.r, r2 |-> fmul(s.r, s.r),
     low |-> fadd(s.r, dbl(exp_tab[(s.k % 128) + 1][1]))]
exp_poly(s) ==
    Only({[tmp |-> fma(fmul(s.r2, s.r2), fma(s.r, exp_C5, exp_C4),
                       fma(fma(s.r, exp_C3, exp_C2), s.r2, s.low)),
           scale |-> [h EXCEPT !.e = h.e + (s.k \div 128)]] :
            h \in {dbl(exp_tab[(s.k % 128) + 1][2])}})

\* 2^-1022, the least normal double.
MinNormal == [sign |-> 1, m |-> <<1>>, e |-> -1022]

\* scale + scale * tmp where the result may be subnormal: it is worked out
\* 2^1022 times as large, corrected in its last bit where it is below 1
\* (exp_corrected), and scaled down.
exp_corrected(scale, prod, y) ==
    Only({fsub(fadd(fadd(fadd(fsub(One, hi), y), lo), hi), One) :
            hi \in {fadd(One, y)}, lo \in {fadd(fsub(scale, y), prod)}})
exp_small(s) ==
    Only({Only({Only({fmul(IF fcmp(y, One) < 0 THEN exp_corrected(scale, prod, y) ELSE y,
                           MinNormal) :
                        y \in {fadd(scale, prod)}}) :
                  prod \in {fmul(s.tmp, scale)}}) :
            scale \in {[s.scale EXCEPT !.e = s.scale.e + 1022]}})

\* 2^1009, and scale + scale * tmp where the result may be beyond the
\* largest double: it is worked out 2^1009 times as small and scaled up.
Two1009 == [sign |-> 1, m |-> <<1>>, e |-> 1009]
exp_large(s) ==
    Only({fmul(Two1009, fma(scale, s.tmp, scale)) :
            scale \in {[s.scale EXCEPT !.e = s.scale.e - 1009]}})
\* The int k of exp_reduce is positive where x is, and negative where x is.
exp_specialcase(x, s) == IF x.sign > 0 THEN exp_large(s) ELSE exp_small(s)

\* exp(x + xtail) for 2^-54 <= abs(x) < 1024.
exp_inline(x, xtail) ==
    Only({IF top(x) >= 10 THEN exp_specialcase(x, s) ELSE fma(s.scale, s.tmp, s.scale) :
          s \in {exp_poly(s) : s \in {exp_square(s) : s \in {exp_reduce(x, xtail)}}}})

\* Python raises OverflowError where the C library's exp or pow returns an
\* infinity for finite arguments.
range_error(y) == IF is_inf(y) THEN OverflowError ELSE y

\* math.exp(x).
exp(x) ==
    IF raises(x) \/ x = NaN \/ x = PosInf THEN x
    ELSE IF x = NegInf THEN Zero
    ELSE IF top(x) <= -54 \/ x.sign = 0 THEN fadd(One, x)
    ELSE IF top(x) >= 11 THEN (IF x.sign < 0 THEN Zero ELSE OverflowError)
    ELSE range_error(exp_inline(x, Zero))

\* The C library's log for pow, in its steps.  log_reduce: x = 2^k * z with
\* z in [OFF, 2 * OFF), OFF = 0x3fe6955500000000 (about 0.705), and r =
\* z / c - 1 for the point c of the table nearest to z (log_reduced: the
\* three values for the exponent k and the row of the table found).
log_reduced(x, k, row) ==
    Only({[t1 |-> fma(kd, Ln2hi, dbl(row[2])),
           lo1 |-> fma(kd, Ln2lo, dbl(row[3])),
           r |-> fma([x EXCEPT !.e = x.e - k], dbl(row[1]), float(-1))] :
            kd \in {float(k)}})
log_reduce(x) ==
    Only({Only({log_reduced(x, k, row) :
                  k \in {top(x) + (IF a < 0 THEN -1 ELSE 0)},
                  row \in {pow_log_tab[((a \div 8192) % 128) + 1]}}) :
            a \in {int(shr(x.m, 32)) - 2 ^ 20 - 431445}})
log_powers(s) ==
    Only({Only({[t1 |-> s.t1, lo1 |-> s.lo1, r |-> s.r, ar2 |-> ar2,
                 ar3 |-> fmul(s.r, ar2), lo3 |-> fma(ar, s.r, fneg(ar2))] :
                  ar2 \in {fmul(s.r, ar)}}) :
            ar \in {fmul(s.r, log_A0)}})
log_sums(s) ==
    Only({Only({[r |-> s.r, ar2 |-> s.ar2, ar3 |-> s.ar3, hi |-> hi,
                 lo |-> fadd(fadd(fadd(s.lo1, fadd(fsub(s.t1, t2), s.r)), s.lo3),
                             fadd(fsub(t2, hi), s.ar2))] :
                  hi \in {fadd(t2, s.ar2)}}) :
            t2 \in {fadd(s.r, s.t1)}})
log_poly(s) ==
    Only({[hi |-> s.hi, lo |-> fma(s.ar3, p, s.lo)] :
            p \in {fma(s.ar2,
                       fma(fma(s.r, log_A6, log_A5), s.ar2, fma(s.r, log_A4, log_A3)),
                       fma(s.r, log_A2, log_A1))}})
log_split(s) ==
    Only({[hi |-> y, lo |-> fadd(fsub(s.hi, y), s.lo)] : y \in {fadd(s.hi, s.lo)}})
log_inline(x) ==
    Only({log_split(s) : s \in {log_poly(s) : s \in {log_sums(s) : s \in
              {log_powers(s) : s \in {log_reduce(x)}}}}})

\* x ** 2.0, the C library's pow(x, 2.0): exp(2 * log(abs(x))), the log in
\* two parts.  nan ** 2.0 is nan and the square of an infinity is inf; the
\* square of a subnormal x, as of any x with 2 * log(abs(x)) <= -1024, is
\* 0.0; a square beyond the largest double raises OverflowError.
square(x) ==
    IF raises(x) \/ x = NaN THEN x
    ELSE IF is_inf(x) THEN PosInf
    ELSE IF x.sign = 0 \/ top(x) <= -1022 THEN Zero
    ELSE Only({IF top(l.hi) <= -55 \/ l.hi.sign = 0 THEN fadd(One, [l.hi EXCEPT !.e = l.hi.e + 1])
               ELSE IF top(l.hi) >= 10 THEN (IF l.hi.sign < 0 THEN Zero ELSE OverflowError)
               ELSE range_error(exp_inline([l.hi EXCEPT !.e = l.hi.e + 1],
                                           [l.lo EXCEPT !.e = l.lo.e + 1])) :
               l \in {log_inline(fabs(x))}})

\* ------------------------------------------------------------------------
\* RandomStream: random.Random(seed) and its uniform(a, b)
\* ------------------------------------------------------------------------

\* random.Random(seed).random() is k / 2^53 for a whole number k below
\* 2^53: the numerators k of the first draws of the Mersenne Twister seeded
\* with 0, 1, 2, ... (one row per seed), in digits.  The first row begins
\* with the numerators of 0.8444218515250481 and 0.7579544029403025, the
\* draws of random.Random(0).
Draws ==
  <<
     <<
        <<15806, 9769, 6159, 1729>>, <<7194, 7742, 4761, 1552>>, <<13500, 8357, 5416, 861>>, <<8915, 8050, 4284, 530>>,
        <<5895, 14278, 1484, 1047>>, <<1438, 16049, 4998, 829>>, <<1269, 7495, 3596, 1605>>, <<1782, 3964, 3022, 621>>,
        <<9342, 1466, 1156, 976>>, <<3965, 15940, 12556, 1194>>, <<12147, 894, 13356, 1859>>, <<7620, 12858, 9808, 1033>>,
        <<6532, 12860, 3340, 577>>, <<6992, 12676, 14532, 1547>>, <<5782, 7370, 6876, 1266>>, <<13331, 16331, 605, 513>>,
        <<6236, 14469, 2626, 1863>>, <<6316, 6984, 12200, 2012>>, <<6404, 2465, 5323, 1659>>, <<15628, 601, 10418, 1847>>,
        <<8759, 8596, 2985, 635>>, <<802, 12590, 11393, 1494>>, <<8860, 3483, 13448, 1840>>, <<7992, 5448, 13092, 1400>>,
        <<16332, 10484, 15536, 966>>, <<2118, 13737, 3867, 206>>, <<2321, 5391, 3013, 889>>, <<2854, 6719, 1581, 1251>>,
        <<8861, 4933, 13871, 1869>>, <<2244, 10455, 9991, 1979>>, <<4456, 1813, 15008, 976>>, <<7610, 2135, 2535, 1772>>,
        <<1592, 8447, 7999, 533>>, <<527, 7858, 11419, 1648>>, <<14965, 7847, 12061, 1123>>, <<680, 4478, 12409, 28>>,
        <<223, 15729, 15649, 1473>>, <<3244, 7005, 12953, 816>>, <<9103, 11407, 4628, 1689>>, <<1455, 2561, 6189, 1368>> >>,
     <<
        <<7521, 14619, 2915, 275>>, <<1272, 11478, 8917, 1735>>, <<7955, 8450, 3447, 1564>>, <<16302, 4578, 6248, 522>>,
        <<14781, 15404, 10666, 1014>>, <<5185, 6030, 9137, 920>>, <<14810, 1554, 7576, 1334>>, <<15972, 859, 5004, 1615>>,
        <<4274, 1998, 3677, 192>>, <<435, 7755, 911, 58>>, <<10762, 5692, 10599, 1711>>, <<1081, 2488, 5029, 886>>,
        <<4549, 3142, 2451, 1561>>, <<2153, 6946, 5131, 4>>, <<14581, 5186, 2506, 912>>, <<4600, 15572, 11697, 1477>>,
        <<5971, 6517, 8274, 468>>, <<11836, 4514, 14981, 1935>>, <<3142, 5396, 2022, 1846>>, <<7067, 8283, 10621, 62>>,
        <<8863, 6756, 1853, 52>>, <<11524, 37, 13316, 1108>>, <<8747, 11801, 6184, 1923>>, <<13727, 11003, 11571, 780>>,
        <<3121, 12161, 9757, 443>>, <<1511, 15261, 8105, 864>>, <<2786, 2161, 7791, 59>>, <<1954, 15416, 401, 454>>,
        <<13567, 7942, 13005, 896>>, <<8402, 2264, 6938, 1015>>, <<16202, 5511, 5848, 477>>, <<6088, 10964, 13347, 472>>,
        <<13794, 7212, 1041, 448>>, <<6443, 3900, 4389, 941>>, <<15911, 7890, 7745, 593>>, <<11026, 13992, 178, 44>>,
        <<675, 3753, 5893, 1715>>, <<4658, 11969, 10132, 1139>>, <<9848, 8601, 6862, 1315>>, <<13590, 2577, 12059, 380>> >>,
     <<
        <<4846, 15823, 15698, 1957>>, <<11967, 15765, 2468, 1941>>, <<2151, 375, 13389, 115>>, <<14604, 9670, 13399, 173>>,
        <<9281, 4788, 1666, 1711>>, <<8331, 15601, 4366, 1507>>, <<5007, 3497, 9959, 1371>>, <<7949, 13318, 1039, 631>>,
        <<4067, 4965, 15952, 1240>>, <<6033, 8338, 11959, 1242>>, <<6297, 10982, 5010, 1190>>, <<13896, 4094, 6031, 324>>,
        <<2926, 2615, 187, 882>>, <<13599, 11483, 15616, 805>>, <<9172, 11715, 11939, 1480>>, <<2298, 6181, 6397, 2037>>,
        <<15711, 13811, 5929, 1944>>, <<11060, 12024, 7775, 1114>>, <<7661, 10248, 1005, 911>>, <<5687, 11883, 5849, 549>>,
        <<12305, 7663, 9388, 73>>, <<50, 9683, 3392, 56>>, <<13819, 7912, 1681, 952>>, <<2366, 7814, 3548, 652>>,
        <<1810, 14023, 4432, 778>>, <<2104, 11813, 6304, 1826>>, <<12199, 8865, 12151, 1076>>, <<12773, 13014, 15158, 1147>>,
        <<8987, 13232, 9514, 483>>, <<13845, 4819, 14112, 48>>, <<320, 4807, 14626, 665>>, <<10531, 6185, 15667, 279>>,
        <<4849, 5569, 15375, 1044>>, <<4397, 14392, 4979, 2045>>, <<5091, 2293, 5479, 1381>>, <<4058, 4076, 6807, 372>>,
        <<5433, 5921, 565, 1830>>, <<8067, 9890, 12522, 1631>>, <<14712, 10343, 895, 1504>>, <<2067, 16009, 11530, 1856>> >>,
     <<
        <<7490, 14715, 5759, 487>>, <<3469, 8726, 9526, 1114>>, <<11631, 7847, 10947, 757>>, <<11850, 14229, 13569, 1236>>,
        <<2787, 6475, 7785, 1281>>, <<8776, 10672, 3327, 134>>, <<8522, 7818, 15860, 26>>, <<15985, 6017, 2239, 1715>>,
        <<227, 10448, 2572, 531>>, <<6288, 4881, 14906, 479>>, <<7182, 15225, 1320, 2039>>, <<13582, 14503, 1632, 963>>,
        <<4739, 14539, 1196, 1713>>, <<10866, 5722, 9361, 975>>, <<12231, 7622, 13296, 1308>>, <<15606, 9141, 7576, 308>>,
        <<741, 12909, 3188, 1300>>, <<3638, 3792, 12399, 1777>>, <<2962, 5693, 7784, 1071>>, <<672, 62, 1373, 1518>>,
        <<9064, 11375, 830, 1375>>, <<14780, 8844, 2234, 131>>, <<14876, 3921, 14017, 1552>>, <<4323, 12463, 9370, 1210>>,
        <<3167, 3195, 16321, 616>>, <<5649, 11565, 8389, 63>>, <<9701, 13391, 9826, 1772>>, <<1540, 2436, 3115, 968>>,
        <<15753, 7864, 2480, 1472>>, <<10563, 5683, 13248, 1799>>, <<1537, 3228, 8801, 1462>>, <<11883, 9940, 6718, 1886>>,
        <<6618, 11174, 14500, 808>>, <<360, 14651, 4278, 1640>>, <<15204, 16236, 9566, 910>>, <<7778, 549, 1337, 1916>>,
        <<2761, 9689, 15055, 1799>>, <<16247, 146, 9608, 199>>, <<695, 14315, 7605, 278>>, <<11322, 9248, 6377, 444>> >>,
     <<
        <<5095, 9434, 6987, 483>>, <<1711, 11146, 4653, 211>>, <<7961, 6057, 2085, 811>>, <<829, 8561, 6278, 317>>,
        <<2804, 4177, 3652, 136>>, <<5733, 6346, 7510, 822>>, <<4637, 1185, 15924, 1879>>, <<2321, 16343, 5347, 1639>>,
        <<615, 8433, 868, 1567>>, <<5073, 14419, 8337, 454>>, <<9226, 13763, 1976, 1099>>, <<13726, 15481, 10584, 566>>,
        <<14195, 3386, 10108, 353>>, <<55, 1072, 7592, 217>>, <<5923, 12054, 1508, 439>>, <<329, 105, 7702, 1899>>,
        <<4270, 6720, 10293, 1697>>, <<16, 5162, 393, 1652>>, <<1291, 9305, 5196, 1639>>, <<1566, 4771, 2558, 396>>,
        <<6033, 5282, 9383, 634>>, <<9002, 3552, 754, 1284>>, <<15408, 3935, 15079, 1498>>, <<9435, 3475, 5240, 1750>>,
        <<5277, 1525, 5635, 1802>>, <<4205, 11652, 9813, 177>>, <<8, 13670, 12855, 1240>>, <<15873, 13876, 10560, 1375>>,
        <<6324, 9211, 3167, 1036>>, <<521, 5109, 1872, 364>>, <<14256, 9338, 14876, 969>>, <<16230, 3868, 16073, 182>>,
        <<791, 11542, 605, 1914>>, <<4600, 12051, 8381, 1772>>, <<8767, 3442, 9247, 1121>>, <<8808, 4125, 14799, 614>>,
        <<12993, 5291, 6002, 1861>>, <<4895, 15175, 3394, 1172>>, <<16022, 13564, 16149, 1806>>, <<4770, 11326, 13013, 1736>> >>,
     <<
        <<4960, 9238, 11512, 1275>>, <<9198, 1468, 2945, 1519>>, <<1151, 6924, 9116, 1628>>, <<13580, 15734, 2263, 1930>>,
        <<11826, 6766, 5116, 1515>>, <<708, 6267, 15099, 1888>>, <<1079, 15730, 6597, 59>>, <<5345, 11370, 9751, 953>>,
        <<1960, 13308, 16294, 1931>>, <<6404, 8404, 1636, 1329>>, <<7586, 4738, 724, 1845>>, <<14181, 13810, 13857, 231>>,
        <<2500, 7653, 10705, 960>>, <<9575, 5655, 16075, 504>>, <<11258, 12705, 10194, 1113>>, <<4237, 9213, 7070, 1175>>,
        <<15212, 2994, 14055, 26>>, <<12889, 5767, 14133, 443>>, <<12810, 745, 6224, 572>>, <<1842, 7649, 11064, 1876>>,
        <<2215, 9787, 3370, 1568>>, <<13869, 11312, 14244, 326>>, <<10361, 8486, 9126, 1632>>, <<420, 14819, 3205, 284>>,
        <<769, 10014, 8892, 1264>>, <<10789, 12829, 7864, 259>>, <<11362, 8078, 10402, 3>>, <<12494, 4117, 10435, 1784>>,
        <<10482, 15456, 15837, 428>>, <<11150, 3932, 5004, 441>>, <<5701, 4775, 16358, 2011>>, <<15080, 681, 11323, 1786>>,
        <<11730, 9476, 8142, 592>>, <<10660, 13102, 1751, 1969>>, <<9554, 3588, 5401, 1104>>, <<16234, 10754, 3224, 1388>>,
        <<1881, 4840, 6364, 419>>, <<3416, 3967, 1947, 1927>>, <<6824, 806, 7122, 1414>>, <<570, 8049, 8580, 1979>> >>,
     <<
        <<6015, 14638, 12459, 1624>>, <<213, 330, 5929, 1683>>, <<657, 7218, 5749, 993>>, <<13532, 4246, 13120, 535>>,
        <<4711, 596, 15157>>, <<3935, 6498, 7412, 1357>>, <<12464, 8050, 1322, 963>>, <<14571, 15297, 15209, 1555>>,
        <<3337, 5404, 3808, 764>>, <<10823, 12377, 4036, 1577>>, <<4814, 6098, 7957, 558>>, <<7306, 9003, 5290, 1642>>,
        <<12940, 11765, 11161, 1494>>, <<11563, 16017, 14502, 847>>, <<12612, 14496, 7357, 1102>>, <<14500, 12673, 13794, 1396>>,
        <<12459, 14595, 3817, 395>>, <<4081, 6961, 13170, 1133>>, <<8601, 2985, 14648, 1648>>, <<3910, 2715, 12896, 543>>,
        <<12331, 10690, 4786, 1645>>, <<14658, 8552, 4798, 1404>>, <<9313, 14027, 1477, 1729>>, <<129, 16344, 4455, 687>>,
        <<5371, 5579, 12118, 190>>, <<2198, 1679, 16040, 1638>>, <<16275, 9217, 3154, 1648>>, <<10607, 11057, 13025, 911>>,
        <<13271, 3094, 1019, 192>>, <<4268, 6966, 12908, 403>>, <<1620, 7358, 5141, 1300>>, <<9315, 399, 5635, 596>>,
        <<1932, 12475, 6748, 1948>>, <<11804, 3697, 6405, 1205>>, <<1565, 11583, 6399, 411>>, <<5246, 11930, 4380, 1342>>,
        <<8710, 10185, 939, 738>>, <<13661, 7506, 4027, 1910>>, <<8019, 13081, 11123, 1862>>, <<13368, 6454, 91, 1054>> >>,
     <<
        <<7479, 7978, 3432, 663>>, <<3228, 5713, 15386, 308>>, <<12799, 8389, 1864, 1333>>, <<15392, 7459, 5726, 148>>,
        <<9120, 4481, 7968, 1097>>, <<1633, 14675, 15251, 748>>, <<2422, 16014, 12808, 118>>, <<6615, 13167, 3741, 1039>>,
        <<653, 8544, 12961, 76>>, <<13650, 9904, 1742, 888>>, <<12380, 985, 1047, 143>>, <<1467, 10449, 12783, 185>>,
        <<1910, 4338, 6804, 869>>, <<1611, 6412, 6441, 1693>>, <<12353, 7976, 8952, 253>>, <<716, 10775, 3168, 457>>,
        <<15651, 6483, 16109, 1284>>, <<6339, 4349, 14875, 1940>>, <<6187, 10590, 14857, 1181>>, <<1930, 203, 6580, 812>>,
        <<9030, 9097, 6069, 1999>>, <<1628, 6376, 6575, 95>>, <<7930, 8737, 2349, 1758>>, <<13001, 1716, 1963, 593>>,
        <<10639, 6310, 7117, 295>>, <<7577, 10530, 3907, 241>>, <<13333, 6390, 12628, 631>>, <<7914, 6889, 6992, 1671>>,
        <<1903, 422, 2091, 370>>, <<10701, 2339, 1919, 1191>>, <<8515, 8961, 8106, 1308>>, <<1239, 399, 10980, 762>>,
        <<13200, 7012, 12790, 1121>>, <<10691, 6407, 9696, 128>>, <<7590, 6631, 1035, 122>>, <<5140, 10225, 13163, 421>>,
        <<15173, 10369, 7522, 1393>>, <<8668, 15471, 11616, 875>>, <<1724, 14195, 6117, 643>>, <<6814, 11974, 3779, 1199>> >>,
     <<
        <<3391, 5613, 4810, 464>>, <<8409, 5633, 12783, 1970>>, <<94, 8983, 11889, 258>>, <<5186, 8371, 7619, 1443>>,
        <<8339, 4656, 7527, 174>>, <<15360, 11514, 12437, 506>>, <<854, 10266, 3526, 2046>>, <<5064, 9833, 13866, 428>>,
        <<1361, 12412, 8954, 1314>>, <<6535, 10188, 5012, 940>>, <<6518, 5695, 249, 928>>, <<8514, 2347, 11871, 1013>>,
        <<8216, 11867, 11284, 393>>, <<6434, 9841, 14869, 1700>>, <<15851, 10178, 7051, 183>>, <<15786, 3108, 9940, 479>>,
        <<15708, 15159, 15436, 40>>, <<10622, 10322, 5566, 546>>, <<13551, 6038, 14673, 834>>, <<1705, 3732, 7007, 1847>>,
        <<11533, 7069, 5676, 776>>, <<8079, 10907, 15088, 232>>, <<16334, 8589, 1876, 529>>, <<1584, 3335, 13135, 2030>>,
        <<9311, 13870, 3368, 129>>, <<12518, 11589, 1703, 1270>>, <<4221, 441, 8456, 772>>, <<12947, 4333, 6665, 1353>>,
        <<2965, 9152, 2002, 693>>, <<7879, 352, 12838, 1415>>, <<4809, 3700, 736, 1019>>, <<14064, 6212, 10311, 1330>>,
        <<10244, 13139, 260, 1846>>, <<2892, 7407, 16168, 1190>>, <<1816, 2485, 1615, 291>>, <<11077, 2210, 13712, 131>>,
        <<7470, 8345, 8410, 1937>>, <<10710, 15162, 12937, 1000>>, <<968, 12895, 212, 397>>, <<13765, 15811, 8171, 1937>> >>,
     <<
        <<11953, 14799, 3916, 948>>, <<2991, 13382, 8893, 764>>, <<7368, 4858, 11939, 283>>, <<8717, 10963, 11774, 1774>>,
        <<12800, 9577, 2932, 13>>, <<6609, 1899, 11431, 1029>>, <<13867, 2476, 11702, 1839>>, <<2659, 9560, 8329, 165>>,
        <<7151, 12027, 2390, 1135>>, <<9873, 15155, 14733, 1262>>, <<11065, 2982, 12362, 83>>, <<15082, 8885, 3803, 776>>,
        <<11443, 16163, 11924, 1440>>, <<6665, 3896, 12105, 925>>, <<14992, 9922, 15300, 1484>>, <<14434, 4785, 14055, 321>>,
        <<4328, 4306, 7356, 487>>, <<6801, 4638, 3613, 227>>, <<9622, 7666, 13746, 1036>>, <<1126, 12251, 55, 1892>>,
        <<6385, 8451, 3235, 1209>>, <<13980, 15107, 9518, 1585>>, <<2963, 15522, 12215, 785>>, <<3820, 3634, 49, 1528>>,
        <<678, 3764, 3588, 208>>, <<8464, 839, 5451, 596>>, <<12078, 918, 13686, 1380>>, <<1805, 7344, 4040, 1486>>,
        <<11526, 11835, 12370, 863>>, <<8006, 3164, 10403, 179>>, <<156, 7829, 4429, 546>>, <<3928, 1624, 14008, 429>>,
        <<7182, 5495, 14183, 575>>, <<15164, 12464, 14383, 1657>>, <<4059, 2903, 8874, 408>>, <<9707, 8213, 5679, 1815>>,
        <<3683, 13972, 15667, 1800>>, <<4077, 11861, 3417, 112>>, <<6935, 3464, 13369, 775>>, <<15220, 569, 420, 1007>> >> >>

\* random.Random(seed): a fresh generator.  An int seed is used by its
\* absolute value, so the seeds 1 and -1 give the same stream.  The state
\* is the seed and the number of draws made so far.
random_Random(seed) == [seed |-> Abs(seed), drawn |-> 0]

\* The state after one draw, and after n draws.
rng_next(s) == [s EXCEPT !.drawn = @ + 1]
rng_after(s, n) == [s EXCEPT !.drawn = @ + n]

\* rng.random() drawn in state s.
random(s) == fl(1, Draws[s.seed + 1][s.drawn + 1], -53, FALSE)

\* rng.uniform(a, b) = a + (b - a) * random(), drawn in state s.
uniform(s, a, b) == fadd(a, fmul(fsub(b, a), random(s)))

\* ------------------------------------------------------------------------
\* Lists of floats
\* ------------------------------------------------------------------------

\* max(...) and min(...) of a non-empty list, looked through from its first
\* element on: the element kept is replaced only by a greater (lesser) one.
RECURSIVE max_from(_, _, _)
max_from(s, i, m) == IF i > Len(s) THEN m ELSE max_from(s, i + 1, fmax(m, s[i]))
MaxSeq(s) == max_from(s, 2, s[1])
RECURSIVE min_from(_, _, _)
min_from(s, i, m) == IF i > Len(s) THEN m ELSE min_from(s, i + 1, fmin(m, s[i]))
MinSeq(s) == min_from(s, 2, s[1])

\* sum(...) of a list: the elements are added to 0 from left to right.
RECURSIVE sum_from(_, _, _)
sum_from(s, i, acc) == IF i > Len(s) THEN acc ELSE sum_from(s, i + 1, fadd(acc, s[i]))
SumSeq(s) == sum_from(s, 1, Zero)

\* optimizer._compute_score: sum of the proposed torque values.
compute_score(proposed_torque) == SumSeq(proposed_torque)

\* optimizer._clamp: max(lo, min(hi, value)).
clamp(value, lo, hi) == fmax(lo, fmin(hi, value))

\* [0.0] * n.
zeros(n) == [i \in 1..n |-> Zero]

\* ------------------------------------------------------------------------
\* Constraints
\* ------------------------------------------------------------------------

\* dict.get(key, default).
get(d, key, default) == IF key \in DOMAIN d THEN d[key] ELSE default

\* The empty dict {}.
EmptyDict == [k \in {} |-> 0]

\* The fixed calibration parameters, in the order of the defaults dict.
Params == <<"afr_target", "ign_timing_deg", "boost_target_psi">>

\* optimizer._pick_calibration: the built-in default ranges.
defaults ==
    [afr_target |-> <<F(12, 5000), F(13, 5000)>>,
     ign_timing_deg |-> <<Zero, F(4, 0)>>,
     boost_target_psi |-> <<Zero, F(14, 0)>>]

\* The values the validator and the generator fall back on for a key that
\* the constraints do not hold: 8.0, 0.03, 0.02 and 0.15.
default_max_bin_delta_nm == F(8, 0)
default_max_bin_delta_ratio == F(0, 300)
default_max_peak_gain_ratio == F(0, 200)
default_max_second_derivative == F(0, 1500)

\* ------------------------------------------------------------------------
\* ProposalValidator: validator.validate_proposal
\* ------------------------------------------------------------------------

\* The outcomes of a call: the warnings list returned, a ValidationError
\* raised with its reason (check: the spec's check number 1..8; bin: the
\* 0-based bin named, -1 if none; param: the parameter named, "" if none),
\* or another exception escaping the function.
Accepted(warnings) ==
    [status |-> "accepted", check |-> 0, kind |-> "", bin |-> -1,
     param |-> "", warnings |-> warnings]
Rejected(check, kind, bin, param) ==
    [status |-> "rejected", check |-> check, kind |-> kind, bin |-> bin,
     param |-> param, warnings |-> <<>>]
Raised(kind) ==
    [status |-> "raised", check |-> 0, kind |-> kind, bin |-> -1,
     param |-> "", warnings |-> <<>>]
NoVerdict ==
    [status |-> "none", check |-> 0, kind |-> "", bin |-> -1,
     param |-> "", warnings |-> <<>>]

\* Section 2 of validate_proposal: the first non-finite delta, from bin i on
\* (bins are 1-based here and 0-based in the reason); 0 if there is none.
RECURSIVE first_non_finite(_, _)
first_non_finite(torque_delta_nm, i) ==
    IF i > Len(torque_delta_nm) THEN 0
    ELSE IF ~is_finite(torque_delta_nm[i]) THEN i
    ELSE first_non_finite(torque_delta_nm, i + 1)

\* ratio > max_bin_delta_ratio for ratio = abs_delta / baseline.
ratio_exceeds(delta, baseline, max_bin_delta_ratio) ==
    gt(fdiv(fabs(delta), baseline), max_bin_delta_ratio)

\* check_bin with the ratio test made before the absolute one.
check_bin_ratio_first(delta, baseline, i, max_bin_delta_nm, max_bin_delta_ratio) ==
    IF ~is_finite(baseline) \/ le(baseline, Zero)
    THEN Rejected(3, "baseline_invalid", i - 1, "")
    ELSE IF ratio_exceeds(delta, baseline, max_bin_delta_ratio)
    THEN Rejected(5, "max_bin_delta_ratio", i - 1, "")
    ELSE IF gt(fabs(delta), max_bin_delta_nm)
    THEN Rejected(4, "max_bin_delta_nm", i - 1, "")
    ELSE NoVerdict

\* The three tests made on one bin by the loop of section 3, in the order
\* of the loop body; NoVerdict if the bin passes.
check_bin(delta, baseline, i, max_bin_delta_nm, max_bin_delta_ratio) ==
    IF ~is_finite(baseline) \/ le(baseline, Zero)
    THEN Rejected(3, "baseline_invalid", i - 1, "")
    ELSE IF gt(fabs(delta), max_bin_delta_nm)
    THEN Rejected(4, "max_bin_delta_nm", i - 1, "")
    ELSE IF ratio_exceeds(delta, baseline, max_bin_delta_ratio)
    THEN Rejected(5, "max_bin_delta_ratio", i - 1, "")
    ELSE NoVerdict

\* Section 3 of validate_proposal: one pass over the bins, from bin i on,
\* stopping at the first bin that fails a test.
RECURSIVE per_bin_limits(_, _, _, _, _)
per_bin_limits(torque_delta_nm, baseline_torque_nm, i, max_bin_delta_nm, max_bin_delta_ratio) ==
    IF i > Min2(Len(torque_delta_nm), Len(baseline_torque_nm)) THEN NoVerdict
    ELSE LET v == check_bin(torque_delta_nm[i], baseline_torque_nm[i], i,
                            max_bin_delta_nm, max_bin_delta_ratio)
         IN  IF v.status # "none" THEN v
             ELSE per_bin_limits(torque_delta_nm, baseline_torque_nm, i + 1,
                                 max_bin_delta_nm, max_bin_delta_ratio)

\* [b + d for b, d in zip(baseline_torque_nm, torque_delta_nm)].
RECURSIVE proposed_from(_, _, _)
proposed_from(baseline_torque_nm, torque_delta_nm, i) ==
    IF i > Min2(Len(baseline_torque_nm), Len(torque_delta_nm)) THEN <<>>
    ELSE <<fadd(baseline_torque_nm[i], torque_delta_nm[i])>>
         \o proposed_from(baseline_torque_nm, torque_delta_nm, i + 1)
proposed_torque(baseline_torque_nm, torque_delta_nm) ==
    proposed_from(baseline_torque_nm, torque_delta_nm, 1)

\* delta[i+1] - 2*delta[i] + delta[i-1] at the interior bin i (1-based), in
\* the order Python evaluates it: the product, the difference, then the
\* sum.  The product of a large delta is inf, and so is the difference.
second_difference(torque_delta_nm, i) ==
    fadd(fsub(torque_delta_nm[i + 1], fmul(float(2), torque_delta_nm[i])),
         torque_delta_nm[i - 1])

\* second_deriv: the abs() of that float.
second_deriv(torque_delta_nm, i) == fabs(second_difference(torque_delta_nm, i))

\* second_deriv > max_second_derivative at the interior bin i.
too_rough(torque_delta_nm, i, max_second_derivative) ==
    gt(second_deriv(torque_delta_nm, i), max_second_derivative)

\* first_rough_bin with the second difference compared without abs().
RECURSIVE first_rough_bin_signed(_, _, _)
first_rough_bin_signed(torque_delta_nm, i, max_second_derivative) ==
    IF i > Len(torque_delta_nm) - 1 THEN 0
    ELSE IF gt(second_difference(torque_delta_nm, i), max_second_derivative)
    THEN i
    ELSE first_rough_bin_signed(torque_delta_nm, i + 1, max_second_derivative)

\* Section 5 of validate_proposal: the first interior bin, from i on, whose
\* second difference exceeds the bound; 0 if there is none.
RECURSIVE first_rough_bin(_, _, _)
first_rough_bin(torque_delta_nm, i, max_second_derivative) ==
    IF i > Len(torque_delta_nm) - 1 THEN 0
    ELSE IF too_rough(torque_delta_nm, i, max_second_derivative) THEN i
    ELSE first_rough_bin(torque_delta_nm, i + 1, max_second_derivative)

\* dict.items() of a calibration made by _pick_calibration: its keys were
\* inserted in the order of Params.
RECURSIVE items_from(_, _)
items_from(d, k) ==
    IF k > Len(Params) THEN <<>>
    ELSE (IF Params[k] \in DOMAIN d THEN << <<Params[k], d[Params[k]]>> >> ELSE <<>>)
         \o items_from(d, k + 1)
items(d) == items_from(d, 1)

\* check_calibration with the range taken as open: lo < value < hi.
RECURSIVE check_calibration_strict(_, _, _)
check_calibration_strict(calibration, calibration_ranges, k) ==
    IF k > Len(calibration) THEN NoVerdict
    ELSE LET param == calibration[k][1]
             value == calibration[k][2]
             rest == check_calibration_strict(calibration, calibration_ranges, k + 1)
         IN  IF ~is_finite(value)
             THEN Rejected(8, "calibration_not_finite", -1, param)
             ELSE IF param \notin DOMAIN calibration_ranges THEN rest
             ELSE IF Len(calibration_ranges[param]) # 2
             THEN Raised("ValueError")
             ELSE IF ~(/\ lt(calibration_ranges[param][1], value)
                       /\ lt(value, calibration_ranges[param][2]))
             THEN Rejected(8, "calibration_range", -1, param)
             ELSE rest

\* Section 6 of validate_proposal: the loop over calibration.items(), from
\* the k-th item on.  The dict is given as the list of its (param, value)
\* items in the order of the dict; every key is looked at, whether or not
\* it is one of Params.
RECURSIVE check_calibration(_, _, _)
check_calibration(calibration, calibration_ranges, k) ==
    IF k > Len(calibration) THEN NoVerdict
    ELSE LET param == calibration[k][1]
             value == calibration[k][2]
             rest == check_calibration(calibration, calibration_ranges, k + 1)
         IN  IF ~is_finite(value)
             THEN Rejected(8, "calibration_not_finite", -1, param)
             ELSE IF param \notin DOMAIN calibration_ranges THEN rest
             ELSE IF Len(calibration_ranges[param]) # 2
             THEN Raised("ValueError")
             ELSE IF ~(/\ le(calibration_ranges[param][1], value)
                       /\ le(value, calibration_ranges[param][2]))
             THEN Rejected(8, "calibration_range", -1, param)
             ELSE rest

\* Section 4 of validate_proposal: peak_gain_ratio =
\* (proposed_peak - baseline_peak) / baseline_peak of a non-empty proposal,
\* which is worked out (checked) only when baseline_peak > 0.
peak_gain(baseline_torque_nm, torque_delta_nm) ==
    Only({IF gt(baseline_peak, Zero)
          THEN [checked |-> TRUE,
                ratio |-> fdiv(fsub(proposed_peak, baseline_peak), baseline_peak)]
          ELSE [checked |-> FALSE, ratio |-> Zero] :
            baseline_peak \in {MaxSeq(baseline_torque_nm)},
            proposed_peak \in
                {MaxSeq(proposed_torque(baseline_torque_nm, torque_delta_nm))}})

\* The peak gain cap: peak_gain_ratio > max_peak_gain_ratio.
peak_gain_exceeds(gain, max_peak_gain_ratio) ==
    gain.checked /\ gt(gain.ratio, max_peak_gain_ratio)

\* peak_gain_negative with the warning also given for a gain of exactly 0.
peak_gain_not_positive(gain) == gain.checked /\ le(gain.ratio, Zero)

\* The warning for a negative peak gain: peak_gain_ratio < 0.
peak_gain_negative(gain) == gain.checked /\ lt(gain.ratio, Zero)

\* Sections 4 to 6 of validate_proposal, for a proposal of one bin or more
\* that passed sections 1 to 3.
validate_curve(torque_delta_nm, calibration, baseline_torque_nm, max_peak_gain_ratio, max_second_derivative, calibration_ranges) ==
    Only({IF peak_gain_exceeds(gain, max_peak_gain_ratio)
          THEN Rejected(6, "peak_gain", -1, "")
          ELSE IF rough # 0 THEN Rejected(7, "smoothness", rough - 1, "")
          ELSE IF cal.status # "none" THEN cal
          ELSE Accepted(IF peak_gain_negative(gain)
                        THEN <<"reduces_peak_torque">> ELSE <<>>) :
            gain \in {peak_gain(baseline_torque_nm, torque_delta_nm)},
            rough \in {IF Len(torque_delta_nm) >= 3
                       THEN first_rough_bin(torque_delta_nm, 2, max_second_derivative)
                       ELSE 0},
            cal \in {check_calibration(calibration, calibration_ranges, 1)}})

\* validate_proposal(torque_delta_nm, calibration, baseline_torque_nm,
\* rpm_bins, constraints).
validate_proposal(torque_delta_nm, calibration, baseline_torque_nm, rpm_bins, constraints) ==
    LET max_bin_delta_nm == get(constraints, "max_bin_delta_nm", default_max_bin_delta_nm)
        max_bin_delta_ratio ==
            get(constraints, "max_bin_delta_ratio", default_max_bin_delta_ratio)
        max_peak_gain_ratio ==
            get(constraints, "max_peak_gain_ratio", default_max_peak_gain_ratio)
        smoothness_cfg == get(constraints, "smoothness", EmptyDict)
        max_second_derivative ==
            get(smoothness_cfg, "max_second_derivative", default_max_second_derivative)
        calibration_ranges == get(constraints, "calibration_ranges", EmptyDict)
    IN  IF Len(torque_delta_nm) # Len(rpm_bins)
        THEN Rejected(1, "torque_delta_length", -1, "")
        ELSE IF Len(baseline_torque_nm) # Len(rpm_bins)
        THEN Rejected(1, "baseline_torque_length", -1, "")
        ELSE Only({IF nf # 0 THEN Rejected(2, "delta_not_finite", nf - 1, "")
                   ELSE IF bins.status # "none" THEN bins
                   ELSE IF Len(baseline_torque_nm) = 0 THEN Raised("ValueError")
                   ELSE validate_curve(torque_delta_nm, calibration, baseline_torque_nm,
                                       max_peak_gain_ratio, max_second_derivative,
                                       calibration_ranges) :
                     nf \in {first_non_finite(torque_delta_nm, 1)},
                     bins \in {per_bin_limits(torque_delta_nm, baseline_torque_nm, 1,
                                              max_bin_delta_nm, max_bin_delta_ratio)}})

\* ------------------------------------------------------------------------
\* CandidateGenerator: optimizer._gaussian_delta_profile
\* ------------------------------------------------------------------------

\* The float literals 0.5, -0.5 and 0.1 of the optimizer.
Half == F(0, 5000)
MinusHalf == fneg(Half)
Tenth == F(0, 1000)

\* per_bin_limit: min(max_bin_delta_nm, b * max_bin_delta_ratio) per bin,
\* from bin i on.
RECURSIVE per_bin_limit_from(_, _, _, _)
per_bin_limit_from(baseline_torque_nm, max_bin_delta_nm, max_bin_delta_ratio, i) ==
    IF i > Len(baseline_torque_nm) THEN <<>>
    ELSE <<fmin(max_bin_delta_nm, fmul(baseline_torque_nm[i], max_bin_delta_ratio))>>
         \o per_bin_limit_from(baseline_torque_nm, max_bin_delta_nm,
                               max_bin_delta_ratio, i + 1)
per_bin_limit(baseline_torque_nm, max_bin_delta_nm, max_bin_delta_ratio) ==
    per_bin_limit_from(baseline_torque_nm, max_bin_delta_nm, max_bin_delta_ratio, 1)

\* The bell peak * math.exp(-0.5 * ((i - center) / sigma) ** 2) at the
\* 0-based bin i, before its clamp.
bell(i, peak, sigma, center) ==
    Only({fmul(peak, y) :
            y \in {exp(fmul(MinusHalf, z2)) :
                     z2 \in {square(z) :
                               z \in {fdiv(fsub(float(i), center), sigma)}}}})

\* gaussian_bin with the bell turned into a dip: the clamped value is
\* subtracted from the baseline instead of added.
gaussian_bin_dip(raw, limit) == fneg(clamp(raw, Zero, limit))

\* One value of the profile: the bell clamped to [0.0, per_bin_limit[i]].
gaussian_bin(raw, limit) == clamp(raw, Zero, limit)

\* The bells of the bins from the 1-based bin i on, and their clamped values.
RECURSIVE bells_from(_, _, _, _, _)
bells_from(n, peak, sigma, center, i) ==
    IF i > n THEN <<>>
    ELSE <<bell(i - 1, peak, sigma, center)>> \o bells_from(n, peak, sigma, center, i + 1)
RECURSIVE bins_from(_, _, _)
bins_from(raw, limits, i) ==
    IF i > Len(raw) THEN <<>>
    ELSE <<gaussian_bin(raw[i], limits[i])>> \o bins_from(raw, limits, i + 1)

\* What a call of _gaussian_delta_profile leaves behind: the profile
\* returned, the state of the generator, the names of the values drawn, and
\* the locals of the call (raw is the bell of each bin before its clamp).
Profile(deltas, rng, draws, limits, global_limit, shape, raw) ==
    [deltas |-> deltas, rng |-> rng, draws |-> draws, limits |-> limits,
     global_limit |-> global_limit, peak |-> shape.peak,
     min_sigma |-> shape.min_sigma, sigma |-> shape.sigma,
     center |-> shape.center, raw |-> raw]
NoShape == [peak |-> Zero, min_sigma |-> Zero, sigma |-> Zero, center |-> Zero]

\* Lines 80 to 88: min_sigma, max_sigma and the draws of sigma and center,
\* for the peak drawn and the generator in state rng.
bell_shape(rng, n, peak, max_second_deriv) ==
    Only({[peak |-> peak, min_sigma |-> min_sigma,
           sigma |-> uniform(rng, min_sigma, fmax(float(n), fadd(min_sigma, Tenth))),
           center |-> uniform(rng_next(rng), Zero, float(n - 1))] :
            min_sigma \in {fsqrt(fdiv(peak, max_second_deriv))}})

\* Lines 73 to 98: the call from the draw of the peak on.
profile_from_peak(rng, n, limits, global_limit, max_second_deriv, peak) ==
    IF le(peak, Zero)
    THEN Profile(zeros(n), rng_next(rng), <<"peak">>, limits, global_limit,
                 NoShape, zeros(n))
    ELSE Only({Only({Profile(bins_from(raw, limits, 1), rng_after(rng, 3),
                             <<"peak", "sigma", "center">>, limits, global_limit,
                             shape, raw) :
                       raw \in {bells_from(n, shape.peak, shape.sigma, shape.center, 1)}}) :
                 shape \in {bell_shape(rng_next(rng), n, peak, max_second_deriv)}})

\* Lines 67 to 98: the call from global_limit on, for the per-bin limits
\* given.
profile_from_limits(rng, n, limits, max_second_deriv, scale) ==
    Only({IF le(global_limit, Zero) \/ le(max_second_deriv, Zero)
          THEN Profile(zeros(n), rng, <<>>, limits, global_limit, NoShape, zeros(n))
          ELSE profile_from_peak(rng, n, limits, global_limit, max_second_deriv,
                                 uniform(rng, Zero, global_limit)) :
            global_limit \in {fmul(MinSeq(limits), scale)}})

\* gaussian_delta_profile with the peak drawn before the limits are looked
\* at: the all-zero profile of the first early return costs one draw.
gaussian_delta_profile_peak_first(rng, baseline_torque_nm, constraints, scale) ==
    LET n == Len(baseline_torque_nm)
        max_second_deriv ==
            get(get(constraints, "smoothness", EmptyDict), "max_second_derivative",
                default_max_second_derivative)
        limits ==
            per_bin_limit(baseline_torque_nm,
                          get(constraints, "max_bin_delta_nm", default_max_bin_delta_nm),
                          get(constraints, "max_bin_delta_ratio",
                              default_max_bin_delta_ratio))
    IN  Only({IF le(global_limit, Zero) \/ le(max_second_deriv, Zero)
              THEN Profile(zeros(n), rng_next(rng), <<"peak">>, limits, global_limit,
                           NoShape, zeros(n))
              ELSE profile_from_peak(rng, n, limits, global_limit, max_second_deriv,
                                     uniform(rng, Zero, global_limit)) :
                global_limit \in {fmul(MinSeq(limits), scale)}})

\* _gaussian_delta_profile(rng, baseline_torque_nm, constraints, scale):
\* the profile returned and the state the generator is left in.  The draws
\* are peak, sigma and center, in this order.
gaussian_delta_profile(rng, baseline_torque_nm, constraints, scale) ==
    LET n == Len(baseline_torque_nm)
        max_bin_delta_nm == get(constraints, "max_bin_delta_nm", default_max_bin_delta_nm)
        max_bin_delta_ratio ==
            get(constraints, "max_bin_delta_ratio", default_max_bin_delta_ratio)
        smoothness_cfg == get(constraints, "smoothness", EmptyDict)
        max_second_deriv ==
            get(smoothness_cfg, "max_second_derivative", default_max_second_derivative)
    IN  profile_from_limits(rng, n,
                            per_bin_limit(baseline_torque_nm, max_bin_delta_nm,
                                          max_bin_delta_ratio),
                            max_second_deriv, scale)

\* ------------------------------------------------------------------------
\* CalibrationSampler: optimizer._pick_calibration
\* ------------------------------------------------------------------------

\* The range a parameter is drawn from: the configured one if present, the
\* default otherwise.
range_of(calibration_ranges, param) ==
    IF param \in DOMAIN calibration_ranges THEN calibration_ranges[param]
    ELSE defaults[param]

\* One draw of the loop of _pick_calibration, bounds swapped if lo > hi.
pick_one(rng, range) ==
    Only({uniform(rng, b[1], b[2]) :
            b \in {IF gt(range[1], range[2]) THEN <<range[2], range[1]>> ELSE range}})

\* _pick_calibration(rng, constraints): the calibration returned, the state
\* the generator is left in and the names of the values drawn; raised when
\* unpacking a configured range into lo, hi fails (the range does not hold
\* two values), which happens after the draws of the parameters before it.
pick_calibration(rng, constraints) ==
    Only({Only({IF done < 3
                THEN [raised |-> TRUE, calibration |-> EmptyDict,
                      rng |-> rng_after(rng, done), draws |-> SubSeq(Params, 1, done)]
                ELSE [raised |-> FALSE,
                      calibration |->
                         [afr_target |-> pick_one(rng, r[1]),
                          ign_timing_deg |-> pick_one(rng_next(rng), r[2]),
                          boost_target_psi |-> pick_one(rng_after(rng, 2), r[3])],
                      rng |-> rng_after(rng, 3),
                      draws |-> Params] :
                  done \in {IF Len(r[1]) # 2 THEN 0 ELSE IF Len(r[2]) # 2 THEN 1
                            ELSE IF Len(r[3]) # 2 THEN 2 ELSE 3}}) :
            r \in {[k \in 1..3 |->
                      range_of(get(constraints, "calibration_ranges", EmptyDict),
                               Params[k])]}})

\* scale_of without the factor 0.5: the scale runs from 1.0 toward 0.0.
scale_of_to_zero(cycle, cycle_budget) ==
    fsub(One, true_divide(cycle, Max2(cycle_budget, 1)))

\* The exploration scale of a cycle:
\* 1.0 - (cycle / max(cycle_budget, 1)) * 0.5.
scale_of(cycle, cycle_budget) ==
    fsub(One, fmul(true_divide(cycle, Max2(cycle_budget, 1)), Half))

\* ------------------------------------------------------------------------
\* Requests
\* ------------------------------------------------------------------------

\* Largest cycle_budget and seed of the requests explored, and the number
\* of times a request is processed.  Of a request with a larger budget the
\* first MaxBudget cycles are followed.
MaxBudget == 3
MaxSeed == 1
MaxRuns == 2

\* ecu_runner.CONTRACT_VERSION.
CONTRACT_VERSION == "1.0"

\* The calibration ranges of the contract's example request.
StdRanges ==
    [afr_target |-> <<F(11, 5000), F(14, 7000)>>,
     ign_timing_deg |-> <<fneg(F(2, 0)), F(8, 0)>>,
     boost_target_psi |-> <<Zero, F(22, 0)>>]

\* A constraints record with every key present.
K(max_peak_gain_ratio, max_bin_delta_nm, max_bin_delta_ratio, max_second_derivative, calibration_ranges) ==
    [max_peak_gain_ratio |-> max_peak_gain_ratio,
     max_bin_delta_nm |-> max_bin_delta_nm,
     max_bin_delta_ratio |-> max_bin_delta_ratio,
     smoothness |-> [max_second_derivative |-> max_second_derivative],
     calibration_ranges |-> calibration_ranges]

\* The constraints of the contract's example request.
StdConstraints == K(F(0, 200), F(8, 0), F(0, 300), F(0, 1500), StdRanges)

\* The constraints records explored.  The request schema puts no condition
\* on the content of "constraints", so caps that are zero or negative, a
\* range given as [hi, lo] and a range that does not hold two values are
\* all requests the service processes.  With a max_bin_delta_nm of 5e-324
\* the peak drawn is 0.0 or 5e-324.
ConstraintsSet ==
    { StdConstraints,
      K(F(0, 200), MinSubnormal, F(0, 300), F(0, 1500), StdRanges),
      K(F(0, 500), F(8, 0), F(0, 500), F(2, 0), EmptyDict),
      [max_peak_gain_ratio |-> F(0, 300)],
      K(F(0, 200), F(0, 1000), F(0, 10), F(0, 1500), StdRanges),
      K(F(0, 10), F(8, 0), F(0, 300), F(0, 1500), StdRanges),
      K(F(0, 200), Zero, F(0, 300), F(0, 1500), StdRanges),
      K(F(0, 200), fneg(F(1, 0)), F(0, 300), F(0, 1500), StdRanges),
      K(F(0, 200), F(8, 0), fneg(F(0, 100)), F(0, 1500), StdRanges),
      K(fneg(F(0, 100)), F(8, 0), F(0, 300), F(0, 1500), StdRanges),
      K(F(0, 200), F(8, 0), F(0, 300), fneg(F(0, 1500)), StdRanges),
      K(F(0, 200), F(8, 0), F(0, 300), F(0, 1500),
        [StdRanges EXCEPT !.afr_target = <<F(14, 7000), F(11, 5000)>>]),
      K(F(0, 200), F(8, 0), F(0, 300), F(0, 1500),
        [StdRanges EXCEPT !.ign_timing_deg = <<F(8, 0)>>]),
      K(F(0, 500), F(8, 0), F(0, 500), F(100, 0),
        [afr_target |-> <<F(12, 0), F(12, 0)>>,
         lambda_target |-> <<F(1, 0), F(0, 9000)>>]) }

\* The baseline curves explored: rpm_bins and torque_nm.
Curve(rpm_bins, torque_nm) == [rpm_bins |-> rpm_bins, torque_nm |-> torque_nm]

CurveSet ==
    { Curve(<<1000>>, <<F(200, 0)>>),
      Curve(<<1000>>, <<decimal(10000004, 5)>>),
      Curve(<<1000, 2000>>, <<F(150, 0), F(180, 0)>>),
      Curve(<<1000, 2000, 3000>>, <<F(200, 0), F(220, 0), F(210, 0)>>),
      Curve(<<1000, 2000, 3000>>, <<F(200, 0), F(200, 0), F(200, 0)>>),
      Curve(<<1000, 2000, 3000, 4000, 5000>>,
            <<F(200, 0), F(210, 0), F(220, 0), F(215, 0), F(200, 0)>>),
      Curve(<<1000, 1000>>, <<F(150, 0), F(180, 0)>>),
      Curve(<<1000, 2000>>, <<F(150, 0), Zero>>) }

Request(seed, cycle_budget, baseline_curve, constraints) ==
    [contract_version |-> CONTRACT_VERSION, request_id |-> "r",
     seed |-> seed, cycle_budget |-> cycle_budget,
     baseline_curve |-> baseline_curve, constraints |-> constraints]

\* A JSON value that is not an int (a float such as 2.5, a string, null).
NotAnInt == 2000000004

\* isinstance(value, int).
is_int(value) == value # NotAnInt

\* The dict d without the key.
without(d, key) == [k \in DOMAIN d \ {key} |-> d[k]]

\* Curves the schema validator refuses: empty or mismatched lists, and
\* torque values that are not finite and positive.
BadCurveSet ==
    { Curve(<<>>, <<F(200, 0)>>),
      Curve(<<1000>>, <<>>),
      Curve(<<1000, 2000>>, <<F(200, 0)>>),
      Curve(<<1000>>, <<F(150, 0), F(180, 0)>>),
      Curve(<<2000, 1000>>, <<F(150, 0), F(180, 0)>>),
      Curve(<<1000, 2000>>, <<F(150, 0), NaN>>),
      Curve(<<1000>>, <<PosInf>>),
      Curve(<<1000, 2000>>, <<fneg(F(150, 0)), F(180, 0)>>),
      [rpm_bins |-> <<1000>>],
      [torque_nm |-> <<F(200, 0)>>] }

\* Malformed requests: a well-formed request with one field wrong or
\* missing, and some with two.
BadRequests ==
    LET curve == Curve(<<1000, 2000>>, <<F(150, 0), F(180, 0)>>)
        good == Request(1, 2, curve, StdConstraints)
    IN  { [good EXCEPT !.contract_version = "0.9"],
          [good EXCEPT !.seed = NotAnInt],
          [good EXCEPT !.cycle_budget = NotAnInt],
          [good EXCEPT !.cycle_budget = -1],
          [good EXCEPT !.seed = NotAnInt, !.cycle_budget = 0],
          [good EXCEPT !.seed = NotAnInt, !.contract_version = "2.0"] }
        \cup { without(good, key) :
                 key \in {"contract_version", "request_id", "seed", "cycle_budget",
                          "baseline_curve", "constraints"} }
        \cup { without([good EXCEPT !.seed = NotAnInt], "constraints"),
               without([good EXCEPT !.baseline_curve = Curve(<<1000>>, <<NaN>>)],
                       "constraints"),
               without(without(good, "seed"), "cycle_budget") }
        \cup { [good EXCEPT !.baseline_curve = c] : c \in BadCurveSet }

\* Requests at the edges of the floats, each a JSON document the schema
\* validator accepts: torques near the largest double, caps and ranges that
\* are NaN or Infinity, and a cycle_budget of 10^16.
EdgeCurve == Curve(<<1000, 2000, 3000>>, <<F(200, 0), F(220, 0), F(210, 0)>>)
EdgeCases ==
    { <<Curve(<<1000, 2000, 3000>>, <<Float1e308, Float1e308, Float1e308>>), StdConstraints>>,
      <<Curve(<<1000>>, <<Float17e307>>), K(PosInf, PosInf, F(0, 9000), PosInf, EmptyDict)>>,
      <<EdgeCurve, K(NaN, NaN, F(0, 300), NaN, StdRanges)>>,
      <<EdgeCurve, K(NaN, F(8, 0), F(0, 300), NaN, StdRanges)>>,
      <<EdgeCurve, K(F(0, 200), F(8, 0), F(0, 300), F(0, 1500),
                     [afr_target |-> <<NaN, F(14, 7000)>>,
                      ign_timing_deg |-> <<NegInf, PosInf>>,
                      boost_target_psi |-> <<Zero, PosInf>>])>> }
EdgeRequests ==
    { Request(seed, cycle_budget, c[1], c[2]) :
        seed \in 0..MaxSeed, cycle_budget \in 1..2, c \in EdgeCases }
    \cup { Request(seed, TenTo16, EdgeCurve, StdConstraints) : seed \in 0..MaxSeed }

Requests ==
    { Request(seed, cycle_budget, baseline_curve, constraints) :
        seed \in 0..MaxSeed, cycle_budget \in 0..MaxBudget,
        baseline_curve \in CurveSet, constraints \in ConstraintsSet }
    \cup EdgeRequests \cup BadRequests

\* not_ascending with equal neighbours let through.
not_ascending_equal_allowed(rpm_bins) ==
    \E i \in 2..Len(rpm_bins) : rpm_bins[i] < rpm_bins[i - 1]

\* rpm_bins[i] <= rpm_bins[i-1] for some i.
not_ascending(rpm_bins) ==
    \E i \in 2..Len(rpm_bins) : rpm_bins[i] <= rpm_bins[i - 1]

\* ecu_runner._validate_request_schema(req): "" when the request is
\* accepted, the ValueError raised otherwise (its first failing test).
validate_request_schema(r) ==
    IF "contract_version" \notin DOMAIN r THEN "missing contract_version"
    ELSE IF r.contract_version # CONTRACT_VERSION THEN "unsupported contract_version"
    ELSE IF "request_id" \notin DOMAIN r THEN "missing request_id"
    ELSE IF "seed" \notin DOMAIN r THEN "missing seed"
    ELSE IF "cycle_budget" \notin DOMAIN r THEN "missing cycle_budget"
    ELSE IF "baseline_curve" \notin DOMAIN r THEN "missing baseline_curve"
    ELSE IF "rpm_bins" \notin DOMAIN r.baseline_curve THEN "missing rpm_bins"
    ELSE IF "torque_nm" \notin DOMAIN r.baseline_curve THEN "missing torque_nm"
    ELSE IF Len(r.baseline_curve.rpm_bins) = 0 THEN "empty rpm_bins"
    ELSE IF Len(r.baseline_curve.torque_nm) = 0 THEN "empty torque_nm"
    ELSE IF Len(r.baseline_curve.rpm_bins) # Len(r.baseline_curve.torque_nm)
    THEN "length mismatch"
    ELSE IF not_ascending(r.baseline_curve.rpm_bins) THEN "rpm_bins not ascending"
    ELSE IF \E i \in 1..Len(r.baseline_curve.torque_nm) :
               ~is_finite(r.baseline_curve.torque_nm[i])
               \/ le(r.baseline_curve.torque_nm[i], Zero)
    THEN "torque not finite and positive"
    ELSE IF "constraints" \notin DOMAIN r THEN "missing constraints"
    ELSE IF ~is_int(r.cycle_budget) \/ r.cycle_budget < 1
    THEN "cycle_budget not a positive integer"
    ELSE IF ~is_int(r.seed) THEN "seed not an integer"
    ELSE ""

\* ------------------------------------------------------------------------
\* State
\* ------------------------------------------------------------------------

VARIABLES
    req,              \* the request being processed
    pc,               \* where process_request / run_optimization stands
    run,              \* how many times the request has been processed
    rng,              \* the state of run_optimization's random.Random
    cycle,            \* the loop variable of run_optimization
    cycles_used,
    best_delta,
    best_calibration,
    best_score,
    best_warnings,
    verdicts,         \* validate_proposal's outcome in each cycle so far
    sampled,          \* the locals of each cycle so far: scale, candidate, score
    result,           \* the dict run_optimization returned
    first_result,     \* the dict its first call returned
    response,         \* the response of process_request
    vin,              \* validate_proposal called directly: its arguments
    vout,             \* ... and its outcome
    legacy,           \* one call of the legacy optimize: arguments and locals
    wear              \* one part in the wear model: condition and races

vars ==
    <<req, pc, run, rng, cycle, cycles_used, best_delta, best_calibration,
      best_score, best_warnings, verdicts, sampled, result, first_result, response,
      vin, vout, legacy, wear>>

search == <<rng, cycle, cycles_used, best_delta, best_calibration, best_score,
            best_warnings, verdicts, sampled>>

NoResult ==
    [torque_delta_nm |-> <<>>, calibration |-> EmptyDict, confidence |-> Zero,
     estimated_peak_gain_ratio |-> Zero, cycles_used |-> 0, best_score |-> Zero,
     warnings |-> <<>>]

\* "proposal": null in a response.
NoProposal ==
    [torque_delta_nm |-> <<>>, calibration |-> EmptyDict, confidence |-> Zero,
     estimated_peak_gain_ratio |-> Zero]

\* list(set(warnings)): each distinct warning once.  (The order in which a
\* set is listed is not fixed by the language; the validator has a single
\* warning text, so at most one element remains.)
RECURSIVE list_set(_)
list_set(warnings) ==
    IF warnings = <<>> THEN <<>>
    ELSE LET rest == list_set(Tail(warnings))
         IN  IF \E k \in 1..Len(rest) : rest[k] = Head(warnings)
             THEN rest ELSE <<Head(warnings)>> \o rest

\* "metrics": null in a response.
NoMetrics == [cycles_used |-> -1, best_score |-> Zero]

NoResponse ==
    [status |-> "", code |-> "", proposal |-> NoProposal, metrics |-> NoMetrics,
     warnings |-> <<>>]

\* ecu_runner._error_response: proposal and metrics are null.
error_response(code) ==
    [status |-> "error", code |-> code, proposal |-> NoProposal,
     metrics |-> NoMetrics, warnings |-> <<>>]

\* ecu_runner._rejected_response: proposal and metrics are null, the
\* warnings are those given.
rejected_response(warnings) ==
    [status |-> "rejected", code |-> "", proposal |-> NoProposal,
     metrics |-> NoMetrics, warnings |-> warnings]

\* ecu_runner._ok_response.
ok_response(proposal, metrics, warnings) ==
    [status |-> "ok", code |-> "", proposal |-> proposal, metrics |-> metrics,
     warnings |-> warnings]

NoCall ==
    [torque_delta_nm |-> <<>>, calibration |-> <<>>,
     baseline_torque_nm |-> <<>>, rpm_bins |-> <<>>, constraints |-> EmptyDict]

\* No call of the legacy optimizer, and no part in the wear model.
NoLegacy == [rpm_bins |-> <<>>]
NoWear == [condition |-> 0]

baseline_torque_nm == req.baseline_curve.torque_nm
rpm_bins == req.baseline_curve.rpm_bins
constraints == req.constraints
cycle_budget == req.cycle_budget

Init ==
    /\ req \in Requests
    /\ pc = "request"
    /\ run = 1
    /\ rng = random_Random(0)
    /\ cycle = 0
    /\ cycles_used = 0
    /\ best_delta = <<>>
    /\ best_calibration = EmptyDict
    /\ best_score = Zero
    /\ best_warnings = <<>>
    /\ verdicts = <<>>
    /\ sampled = <<>>
    /\ result = NoResult
    /\ first_result = NoResult
    /\ response = NoResponse
    /\ vin = NoCall
    /\ vout = NoVerdict
    /\ legacy = NoLegacy
    /\ wear = NoWear

\* ------------------------------------------------------------------------
\* ResultAssembler: the end of run_optimization
\* ------------------------------------------------------------------------

\* estimated_peak_gain_ratio, lines 193-198: (proposed_peak - baseline_peak)
\* / baseline_peak, and 0.0 when baseline_peak is not positive.
estimated_peak_gain_ratio(baseline, delta) ==
    Only({IF gt(baseline_peak, Zero)
          THEN fdiv(fsub(proposed_peak, baseline_peak), baseline_peak)
          ELSE Zero :
            baseline_peak \in {MaxSeq(baseline)},
            proposed_peak \in {MaxSeq(proposed_torque(baseline, delta))}})

\* confidence_of with the default cap 0.02 in place of the configured one.
confidence_of_default_cap(estimated, max_peak_gain_ratio) ==
    round(clamp(IF gt(max_peak_gain_ratio, Zero)
                THEN fdiv(estimated, default_max_peak_gain_ratio) ELSE Zero,
                Zero, One), 4)

\* round(_clamp(estimated_peak_gain_ratio / max_peak_gain_ratio if
\* max_peak_gain_ratio > 0 else 0.0, 0.0, 1.0), 4), lines 201-208 and 221:
\* the quotient is taken of the unrounded ratio.
confidence_of(estimated, max_peak_gain_ratio) ==
    round(clamp(IF gt(max_peak_gain_ratio, Zero)
                THEN fdiv(estimated, max_peak_gain_ratio) ELSE Zero,
                Zero, One), 4)

\* The dict returned by run_optimization (lines 192-226): the delta and the
\* calibration as they are, the three metrics rounded.
final_result ==
    Only({[torque_delta_nm |-> best_delta,
           calibration |-> best_calibration,
           confidence |->
              confidence_of(estimated,
                            get(constraints, "max_peak_gain_ratio",
                                default_max_peak_gain_ratio)),
           estimated_peak_gain_ratio |-> round(estimated, 6),
           cycles_used |-> cycles_used,
           best_score |-> round(best_score, 4),
           warnings |-> best_warnings] :
            estimated \in {estimated_peak_gain_ratio(baseline_torque_nm, best_delta)}})

\* ------------------------------------------------------------------------
\* process_request and run_optimization
\* ------------------------------------------------------------------------

\* process_request, lines 159-164: the schema validator raises and the
\* request is answered with SCHEMA_ERROR; the optimizer is not called.
SchemaError ==
    /\ pc = "request"
    /\ validate_request_schema(req) # ""
    /\ pc' = "responded"
    /\ response' = error_response("SCHEMA_ERROR")
    /\ UNCHANGED <<legacy, wear, req, run, search, result, first_result, vin, vout>>

\* initial_pick with the generator of the previous call carried over (a
\* module-level generator that is not seeded again).
initial_pick_shared_rng == pick_calibration(rng, constraints)

\* The value of best_calibration and of rng after line 157.
initial_pick == pick_calibration(random_Random(req.seed), constraints)

\* process_request, lines 159-186, and run_optimization, lines 150-160: the
\* request is accepted and the search is set up from its arguments alone.
RunOptimization ==
    /\ pc = "request"
    /\ validate_request_schema(req) = ""
    /\ \E pick \in {initial_pick} :
          /\ ~pick.raised
          /\ rng' = pick.rng
          /\ best_calibration' = pick.calibration
    /\ pc' = "loop"
    /\ best_delta' = zeros(Len(baseline_torque_nm))
    /\ best_score' = compute_score(baseline_torque_nm)
    /\ best_warnings' = <<>>
    /\ cycles_used' = 0
    /\ cycle' = 0
    /\ verdicts' = <<>>
    /\ sampled' = <<>>
    /\ UNCHANGED <<legacy, wear, req, run, result, first_result, response, vin, vout>>

\* run_optimization, line 157: _pick_calibration raises before the loop.
RunOptimizationRaises ==
    /\ pc = "request"
    /\ validate_request_schema(req) = ""
    /\ initial_pick.raised
    /\ pc' = "raised"
    /\ UNCHANGED <<legacy, wear, req, run, search, result, first_result, response, vin, vout>>

\* candidate with the two calls in the other order: the calibration is
\* drawn first, the delta profile second.
candidate_calibration_first ==
    Only({Only({[delta |-> g.deltas, calibration |-> c.calibration, rng |-> g.rng,
                 raised |-> c.raised, draws |-> c.draws \o g.draws,
                 scale |-> scale, profile |-> g, picked |-> c] :
                  g \in {gaussian_delta_profile(c.rng, baseline_torque_nm, constraints,
                                                scale)}}) :
            scale \in {scale_of(cycle, cycle_budget)},
            c \in {pick_calibration(rng, constraints)}})

\* candidate with the calibration drawn in the cycle dropped: the delta
\* profile is paired with the calibration retained so far.
candidate_retained_calibration ==
    Only({Only({Only({[delta |-> g.deltas, calibration |-> best_calibration,
                       rng |-> c.rng, raised |-> c.raised, draws |-> g.draws \o c.draws,
                       scale |-> scale, profile |-> g, picked |-> c] :
                        c \in {pick_calibration(g.rng, constraints)}}) :
                  g \in {gaussian_delta_profile(rng, baseline_torque_nm, constraints,
                                                scale)}}) :
            scale \in {scale_of(cycle, cycle_budget)}})

\* The candidate of the current cycle (lines 165-168): the delta profile is
\* drawn first, the calibration second.  The record keeps the two calls'
\* results and the scale they were made with.
candidate ==
    Only({Only({Only({[delta |-> g.deltas, calibration |-> c.calibration,
                       rng |-> c.rng, raised |-> c.raised, draws |-> g.draws \o c.draws,
                       scale |-> scale, profile |-> g, picked |-> c] :
                        c \in {pick_calibration(g.rng, constraints)}}) :
                  g \in {gaussian_delta_profile(rng, baseline_torque_nm, constraints,
                                                scale)}}) :
            scale \in {scale_of(cycle, cycle_budget)}})

\* keeps with ties let through: a candidate whose score equals best_score
\* replaces the retained best.
keeps_ties(verdict, score, best) == verdict.status = "accepted" /\ ge(score, best)

\* keeps with the validator's rejection swallowed: the candidate is scored
\* although validate_proposal raised.
keeps_rejected(verdict, score, best) == gt(score, best)

\* Whether the loop replaces the retained best by the candidate: validation
\* did not raise (lines 170-180) and the score is strictly better (line 185).
keeps(verdict, score, best) == verdict.status = "accepted" /\ gt(score, best)

\* One iteration of the loop of run_optimization (lines 162-190).
Cycle ==
    /\ pc = "loop"
    /\ cycle < cycle_budget
    /\ cycle < MaxBudget
    /\ \E cand \in {candidate} :
       \E verdict \in {validate_proposal(cand.delta, items(cand.calibration),
                                         baseline_torque_nm, rpm_bins, constraints)} :
       \E score \in {compute_score(proposed_torque(baseline_torque_nm, cand.delta))} :
          LET keep == keeps(verdict, score, best_score)
          IN  /\ cycles_used' = cycles_used + 1
              /\ cycle' = cycle + 1
              /\ rng' = cand.rng
              /\ verdicts' = Append(verdicts, verdict)
              /\ sampled' = Append(sampled, [rng |-> rng, candidate |-> cand,
                                             score |-> score, kept |-> keep])
              /\ pc' = IF cand.raised \/ verdict.status = "raised"
                       THEN "raised" ELSE "loop"
              /\ best_delta' = IF keep THEN cand.delta ELSE best_delta
              /\ best_calibration' = IF keep THEN cand.calibration ELSE best_calibration
              /\ best_score' = IF keep THEN score ELSE best_score
              /\ best_warnings' = IF keep THEN verdict.warnings ELSE best_warnings
    /\ UNCHANGED <<legacy, wear, req, run, result, first_result, response, vin, vout>>

\* run_optimization, lines 192-226: the budget is used up and the result is
\* returned.
Return ==
    /\ pc = "loop"
    /\ cycle >= cycle_budget
    /\ pc' = "returned"
    /\ \E res \in {final_result} :
          /\ result' = res
          /\ first_result' = IF run = 1 THEN res ELSE first_result
    /\ UNCHANGED <<legacy, wear, req, run, search, response, vin, vout>>

\* process_request, lines 187-189: the optimizer raised.
OptimizerError ==
    /\ pc = "raised"
    /\ pc' = "responded"
    /\ response' = error_response("OPTIMIZER_ERROR")
    /\ UNCHANGED <<legacy, wear, req, run, search, result, first_result, vin, vout>>

\* final_response with the outcome of the final validation ignored.
final_response_unchecked(res, final) ==
    ok_response([torque_delta_nm |-> res.torque_delta_nm,
                 calibration |-> res.calibration,
                 confidence |-> res.confidence,
                 estimated_peak_gain_ratio |-> res.estimated_peak_gain_ratio],
                [cycles_used |-> res.cycles_used, best_score |-> res.best_score],
                res.warnings)

\* process_request, lines 191-253: the response built from the optimizer's
\* result and the outcome of the final validate_proposal call.  An exception
\* other than ValidationError is not caught by process_request.
final_response(res, final) ==
    IF final.status = "rejected" THEN rejected_response(<<final.kind>>)
    ELSE IF final.status = "raised" THEN error_response("UNHANDLED_ERROR")
    ELSE IF first_non_finite(res.torque_delta_nm, 1) # 0
    THEN error_response("NON_FINITE_OUTPUT")
    ELSE ok_response([torque_delta_nm |-> res.torque_delta_nm,
                      calibration |-> res.calibration,
                      confidence |-> res.confidence,
                      estimated_peak_gain_ratio |-> res.estimated_peak_gain_ratio],
                     [cycles_used |-> res.cycles_used, best_score |-> res.best_score],
                     list_set(res.warnings \o final.warnings))

\* process_request, lines 191-253: the final self-validation of the result.
Respond ==
    /\ pc = "returned"
    /\ response' =
          final_response(result,
                         validate_proposal(result.torque_delta_nm, items(result.calibration),
                                           baseline_torque_nm, rpm_bins, constraints))
    /\ pc' = "responded"
    /\ UNCHANGED <<legacy, wear, req, run, search, result, first_result, vin, vout>>

\* The same request is sent again: process_request is called a second time
\* in the same interpreter, with the objects of the first call still there.
ProcessAgain ==
    /\ pc = "responded"
    /\ run < MaxRuns
    /\ run' = run + 1
    /\ pc' = "request"
    /\ response' = NoResponse
    /\ UNCHANGED <<legacy, wear, req, search, result, first_result, vin, vout>>

Next ==
    \/ SchemaError
    \/ RunOptimization
    \/ RunOptimizationRaises
    \/ Cycle
    \/ Return
    \/ OptimizerError
    \/ Respond
    \/ ProcessAgain

Spec == Init /\ [][Next]_vars

\* ------------------------------------------------------------------------
\* validate_proposal called on its own
\* ------------------------------------------------------------------------

\* Largest number of bins of the proposals validated directly.
MaxBins == 3

\* The (delta, baseline) pairs a bin of such a proposal is drawn from.
BinKinds ==
    { <<F(1, 0), F(200, 0)>>, <<F(5, 0), F(200, 0)>>,
      <<fneg(F(1, 0)), F(200, 0)>>, <<F(5, 0), F(100, 0)>>, <<F(9, 0), F(300, 0)>>,
      <<NaN, F(200, 0)>>, <<F(1, 0), Zero>>, <<F(9, 0), PosInf>> }

\* Further proposals: one whose peak gain is exactly 0, longer ones with
\* more than one interior bin (a flat delta on two baselines, and deltas
\* that are rough at one or two interior bins), and proposals that sit on a
\* cap in decimals: 3.003 on 100.1 (3.003 / 100.1 > 0.03 as floats), 2.004
\* on 100.2 (peak gain over 0.02 as a float), 4.0 on 200.0 (peak gain the
\* float 0.02), and the deltas 0.1, 0.0, 0.05 and 0.0, 0.0, 0.15 (second
\* differences 0.15000000000000002 and 0.15).
ExtraSeqs ==
    { <<<<Zero, F(200, 0)>>, <<F(1, 0), F(100, 0)>>>>,
      <<<<F(1, 0), F(200, 0)>>, <<F(1, 0), F(210, 0)>>, <<F(1, 0), F(220, 0)>>,
        <<F(1, 0), F(215, 0)>>, <<F(1, 0), F(200, 0)>>>>,
      <<<<F(1, 0), F(100, 0)>>, <<F(1, 0), F(300, 0)>>, <<F(1, 0), F(100, 0)>>,
        <<F(1, 0), F(300, 0)>>, <<F(1, 0), F(100, 0)>>>>,
      <<<<F(1, 0), F(200, 0)>>, <<F(1, 0), F(200, 0)>>, <<F(1, 0), F(200, 0)>>,
        <<fneg(F(1, 0)), F(200, 0)>>, <<F(1, 0), F(200, 0)>>>>,
      <<<<F(1, 0), F(200, 0)>>, <<F(1, 0), F(210, 0)>>, <<F(1, 0), F(220, 0)>>,
        <<fneg(F(1, 0)), F(215, 0)>>, <<F(1, 0), F(200, 0)>>>>,
      <<<<F(1, 0), F(200, 0)>>, <<fneg(F(1, 0)), F(200, 0)>>, <<F(1, 0), F(200, 0)>>,
        <<fneg(F(1, 0)), F(200, 0)>>>>,
      <<<<F(3, 30), F(100, 1000)>>>>,
      <<<<F(2, 40), F(100, 2000)>>>>,
      <<<<F(4, 0), F(200, 0)>>>>,
      <<<<F(0, 1000), F(200, 0)>>, <<Zero, F(200, 0)>>, <<F(0, 500), F(200, 0)>>>>,
      <<<<Zero, F(200, 0)>>, <<Zero, F(200, 0)>>, <<F(0, 1500), F(200, 0)>>>> }

BinSeqs == UNION { [1..n -> BinKinds] : n \in 0..MaxBins } \cup ExtraSeqs

\* The calibration dicts explored, each as the list of its items: the
\* empty dict, dicts of the three parameters in the order of Params and in
\* other orders, and dicts with a key that is none of the three.
CalibrationSet ==
    { <<>>,
      << <<"afr_target", F(13, 0)>>, <<"ign_timing_deg", F(2, 0)>>,
         <<"boost_target_psi", F(10, 0)>> >>,
      << <<"afr_target", F(10, 0)>>, <<"ign_timing_deg", F(9, 0)>>,
         <<"boost_target_psi", F(10, 0)>> >>,
      << <<"ign_timing_deg", F(9, 0)>>, <<"afr_target", F(10, 0)>>,
         <<"boost_target_psi", F(10, 0)>> >>,
      << <<"afr_target", F(11, 5000)>>, <<"ign_timing_deg", NegInf>>,
         <<"boost_target_psi", F(22, 0)>> >>,
      << <<"afr_target", F(11, 5000)>>, <<"ign_timing_deg", F(8, 0)>>,
         <<"boost_target_psi", F(22, 0)>> >>,
      << <<"boost_target_psi", NaN>>, <<"afr_target", F(10, 0)>> >>,
      << <<"lambda_target", NaN>> >>,
      << <<"afr_target", F(13, 0)>>, <<"lambda_target", F(2, 0)>> >> }

\* Proposals at the edges of the floats, as (delta, baseline): a constant
\* delta of 1e308 or -1e308 whose doubled value is infinite, and a delta
\* that puts the proposed peak at infinity; under caps that are finite,
\* infinite or NaN.
EdgeProposals ==
    { <<<<Float1e308, Float1e308, Float1e308>>, <<Float5e307, Float5e307, Float5e307>>>>,
      <<<<fneg(Float1e308), fneg(Float1e308), fneg(Float1e308)>>,
        <<Float1e308, Float1e308, Float1e308>>>>,
      <<<<Float1e308>>, <<Float1e308>>>>,
      <<<<Float1e308, Float1e308, Float1e308>>, <<Float1e308, Float1e308, Float1e308>>>> }
EdgeCalls ==
    { [torque_delta_nm |-> p[1],
       calibration |-> c,
       baseline_torque_nm |-> p[2],
       rpm_bins |-> [i \in 1..Len(p[1]) |-> 1000 * i],
       constraints |-> k] :
        p \in EdgeProposals,
        c \in { <<>>,
                << <<"afr_target", F(13, 0)>>, <<"ign_timing_deg", F(2, 0)>>,
                   <<"boost_target_psi", F(10, 0)>> >> },
        k \in { StdConstraints,
                K(F(3, 0), PosInf, F(2, 0), F(0, 1500), StdRanges),
                K(PosInf, PosInf, PosInf, PosInf, StdRanges),
                K(F(3, 0), Float1e308, F(2, 0), NaN, StdRanges),
                K(NaN, NaN, NaN, F(0, 1500), StdRanges) } }

Calls ==
    EdgeCalls \cup
    { [torque_delta_nm |-> [i \in 1..Len(b) |-> b[i][1]],
       calibration |-> c,
       baseline_torque_nm |->
          [i \in 1..(IF shape = "short_baseline" /\ Len(b) > 0
                     THEN Len(b) - 1 ELSE Len(b)) |-> b[i][2]],
       rpm_bins |->
          [i \in 1..(IF shape = "long_rpm" THEN Len(b) + 1 ELSE Len(b)) |-> 1000 * i],
       constraints |-> k] :
        b \in BinSeqs, c \in CalibrationSet,
        shape \in {"same", "long_rpm", "short_baseline"},
        k \in { StdConstraints,
                K(F(0, 500), F(4, 0), F(0, 300), F(100, 0),
                  [afr_target |-> <<F(12, 0), F(14, 0)>>,
                   lambda_target |-> <<F(0, 9000), F(1, 1000)>>]) } }

InitV ==
    /\ vin \in Calls
    /\ vout = NoVerdict
    /\ pc = "call"
    /\ req = Request(0, 1, Curve(<<1000>>, <<F(200, 0)>>), EmptyDict)
    /\ run = 1
    /\ rng = random_Random(0)
    /\ cycle = 0
    /\ cycles_used = 0
    /\ best_delta = <<>>
    /\ best_calibration = EmptyDict
    /\ best_score = Zero
    /\ best_warnings = <<>>
    /\ verdicts = <<>>
    /\ sampled = <<>>
    /\ result = NoResult
    /\ first_result = NoResult
    /\ response = NoResponse
    /\ legacy = NoLegacy
    /\ wear = NoWear

\* One call of validate_proposal.
Validate ==
    /\ pc = "call"
    /\ vout' = validate_proposal(vin.torque_delta_nm, vin.calibration,
                                 vin.baseline_torque_nm, vin.rpm_bins,
                                 vin.constraints)
    /\ pc' = "called"
    /\ UNCHANGED <<legacy, wear, req, run, search, result, first_result, response, vin>>

NextV == Validate

SpecV == InitV /\ [][NextV]_vars

\* ------------------------------------------------------------------------
\* Properties
\* ------------------------------------------------------------------------

\* The constraint values the validator and the optimizer read.
c_max_bin_delta_nm == get(constraints, "max_bin_delta_nm", default_max_bin_delta_nm)
c_max_bin_delta_ratio ==
    get(constraints, "max_bin_delta_ratio", default_max_bin_delta_ratio)
c_max_peak_gain_ratio ==
    get(constraints, "max_peak_gain_ratio", default_max_peak_gain_ratio)
c_max_second_derivative ==
    get(get(constraints, "smoothness", EmptyDict), "max_second_derivative",
        default_max_second_derivative)
c_calibration_ranges == get(constraints, "calibration_ranges", EmptyDict)

Searching == pc \in {"loop", "returned"}
SchemaAccepted == validate_request_schema(req) = ""
NonZero(delta) == \E i \in 1..Len(delta) : delta[i] # Zero

\* C1: two calls of run_optimization with the same arguments return the same
\* torque_delta_nm and the same calibration: whatever the first call left
\* behind, the second call's result equals the first's.
C1_Deterministic ==
    (run >= 2 /\ pc = "returned")
        => /\ result.torque_delta_nm = first_result.torque_delta_nm
           /\ result.calibration = first_result.calibration

\* A second call has returned a delta that a cycle produced.
C1_Witness ==
    run >= 2 /\ pc = "returned" /\ NonZero(result.torque_delta_nm)
    /\ cycle_budget >= 2

\* C2: the pair (torque_delta_nm, calibration) returned by run_optimization
\* is accepted by validate_proposal against the same baseline, rpm_bins and
\* constraints, for every request the schema validator accepts.
C2_ReturnedPairAccepted ==
    pc = "returned"
        => validate_proposal(result.torque_delta_nm, items(result.calibration),
                             baseline_torque_nm, rpm_bins, constraints).status
           = "accepted"

\* C3: run_optimization never raises for a request the schema validator
\* accepts.
C3_NeverRaises == pc # "raised"

\* C4: at every point of the search and in the returned result, every bin
\* of the retained best delta has |delta[i]| <= max_bin_delta_nm and
\* |delta[i]| / baseline[i] <= max_bin_delta_ratio.
C4_BestDeltaWithinBinCaps ==
    Searching
        => \A i \in 1..Len(best_delta) :
              /\ le(fabs(best_delta[i]), c_max_bin_delta_nm)
              /\ ~ratio_exceeds(best_delta[i], baseline_torque_nm[i],
                                c_max_bin_delta_ratio)

\* C5: at every point of the search and in the returned result, the peak
\* gain ratio of baseline + retained best delta does not exceed
\* max_peak_gain_ratio, and neither does the returned
\* estimated_peak_gain_ratio.
C5_PeakGainWithinCap ==
    /\ Searching
          => ~peak_gain_exceeds(peak_gain(baseline_torque_nm, best_delta),
                                c_max_peak_gain_ratio)
    /\ pc = "returned"
          => le(result.estimated_peak_gain_ratio, c_max_peak_gain_ratio)

\* C6: for a baseline of three or more bins, every interior second
\* difference of the returned delta is at most max_second_derivative.
C6_ReturnedDeltaSmooth ==
    (pc = "returned" /\ Len(baseline_torque_nm) >= 3)
        => \A i \in 2..(Len(result.torque_delta_nm) - 1) :
              ~too_rough(result.torque_delta_nm, i,
                        c_max_second_derivative)

\* C7: every returned calibration value lies within the range configured
\* for its parameter, lo <= value <= hi with the bounds as configured.
C7_CalibrationWithinConfiguredRange ==
    pc = "returned"
        => \A param \in DOMAIN result.calibration \cap DOMAIN c_calibration_ranges :
              /\ le(c_calibration_ranges[param][1], result.calibration[param])
              /\ le(result.calibration[param], c_calibration_ranges[param][2])

\* Every cycle of the budget ended with validate_proposal rejecting.
AllRejected ==
    /\ Len(verdicts) = cycle_budget
    /\ \A k \in 1..Len(verdicts) : verdicts[k].status = "rejected"

\* C8 as stated: if validate_proposal rejects the candidate of every cycle,
\* run_optimization returns the all-zero delta of the baseline's length,
\* best_score = sum(baseline) and estimated_peak_gain_ratio = 0, and no
\* error is signalled.
C8_AllRejectedReturnsBaseline ==
    (SchemaAccepted /\ AllRejected
     /\ pc \in {"loop", "returned", "raised", "responded"})
        => /\ pc # "raised"
           /\ response.code # "OPTIMIZER_ERROR"
           /\ pc \in {"returned", "responded"}
                 => /\ result.torque_delta_nm = zeros(Len(baseline_torque_nm))
                    /\ result.best_score = SumSeq(baseline_torque_nm)
                    /\ result.estimated_peak_gain_ratio = Zero

\* C8: if validate_proposal rejects the candidate of every cycle,
\* run_optimization returns the all-zero delta of the baseline's length,
\* best_score = sum(baseline) rounded to four decimals and
\* estimated_peak_gain_ratio = 0, and no error is signalled.
C8_AllRejectedReturnsRoundedBaseline ==
    (SchemaAccepted /\ AllRejected
     /\ pc \in {"loop", "returned", "raised", "responded"})
        => /\ pc # "raised"
           /\ response.code # "OPTIMIZER_ERROR"
           /\ pc \in {"returned", "responded"}
                 => /\ result.torque_delta_nm = zeros(Len(baseline_torque_nm))
                    /\ result.best_score = round(SumSeq(baseline_torque_nm), 4)
                    /\ result.estimated_peak_gain_ratio = Zero

\* A run of two or more cycles on a baseline written to five decimals
\* returned after every candidate was rejected, the first of them for its
\* peak gain: the best_score returned is not sum(baseline).
C8_Witness ==
    /\ pc = "returned" /\ AllRejected /\ cycle_budget >= 2
    /\ verdicts[1].kind = "peak_gain"
    /\ result.best_score # SumSeq(baseline_torque_nm)

\* C9: for a baseline of length 1, the returned delta has length 1 and
\* |delta[0]| <= min(max_bin_delta_nm, baseline[0] * max_bin_delta_ratio),
\* and process_request answers with status ok.
C9_SingleBinOk ==
    (pc = "responded" /\ SchemaAccepted /\ Len(baseline_torque_nm) = 1)
        => /\ response.status = "ok"
           /\ Len(response.proposal.torque_delta_nm) = 1
           /\ le(fabs(response.proposal.torque_delta_nm[1]),
                 fmin(c_max_bin_delta_nm,
                      fmul(baseline_torque_nm[1], c_max_bin_delta_ratio)))

\* --- the checks of validate_proposal, each stated on its own ---

v_max_bin_delta_nm ==
    get(vin.constraints, "max_bin_delta_nm", default_max_bin_delta_nm)
v_max_bin_delta_ratio ==
    get(vin.constraints, "max_bin_delta_ratio", default_max_bin_delta_ratio)
v_max_peak_gain_ratio ==
    get(vin.constraints, "max_peak_gain_ratio", default_max_peak_gain_ratio)
v_max_second_derivative ==
    get(get(vin.constraints, "smoothness", EmptyDict), "max_second_derivative",
        default_max_second_derivative)
v_calibration_ranges == get(vin.constraints, "calibration_ranges", EmptyDict)

Least(S) == CHOOSE x \in S : \A y \in S : x <= y

\* Bins (1-based) at which a check is violated.
NonFiniteBins ==
    { i \in 1..Len(vin.torque_delta_nm) : ~is_finite(vin.torque_delta_nm[i]) }
BadBaselineBins ==
    { i \in 1..Len(vin.baseline_torque_nm) :
        ~is_finite(vin.baseline_torque_nm[i]) \/ le(vin.baseline_torque_nm[i], Zero) }
OverAbsBins ==
    { i \in 1..Len(vin.torque_delta_nm) :
        is_finite(vin.torque_delta_nm[i])
        /\ gt(fabs(vin.torque_delta_nm[i]), v_max_bin_delta_nm) }
OverRatioBins ==
    { i \in 1..Min2(Len(vin.torque_delta_nm), Len(vin.baseline_torque_nm)) :
        /\ is_finite(vin.torque_delta_nm[i])
        /\ i \notin BadBaselineBins
        /\ ratio_exceeds(vin.torque_delta_nm[i], vin.baseline_torque_nm[i],
                         v_max_bin_delta_ratio) }
RoughBins ==
    { i \in 2..(Len(vin.torque_delta_nm) - 1) :
        too_rough(vin.torque_delta_nm, i, v_max_second_derivative) }
LengthsDiffer ==
    \/ Len(vin.torque_delta_nm) # Len(vin.rpm_bins)
    \/ Len(vin.baseline_torque_nm) # Len(vin.rpm_bins)

\* The number of the lowest-numbered check of the list 1..8 that the
\* proposal violates, given that it is rejected.
LowestViolatedCheck ==
    IF LengthsDiffer THEN 1
    ELSE IF NonFiniteBins # {} THEN 2
    ELSE IF BadBaselineBins # {} THEN 3
    ELSE IF OverAbsBins # {} THEN 4
    ELSE IF OverRatioBins # {} THEN 5
    ELSE IF peak_gain_exceeds(peak_gain(vin.baseline_torque_nm, vin.torque_delta_nm),
                              v_max_peak_gain_ratio) THEN 6
    ELSE IF RoughBins # {} THEN 7
    ELSE 8

\* The check named when checks 3, 4 and 5 are made bin by bin: the lowest
\* check violated at the first bin that violates any of them.
FirstBadBin == Least(BadBaselineBins \cup OverAbsBins \cup OverRatioBins)
CheckAtFirstBadBin ==
    IF FirstBadBin \in BadBaselineBins THEN 3
    ELSE IF FirstBadBin \in OverAbsBins THEN 4
    ELSE 5

\* C10 as stated: the rejection reason is that of the lowest-numbered
\* violated check of the list 1..8.
C10_LowestNumberedCheckFirst ==
    (pc = "called" /\ vout.status = "rejected")
        => vout.check = LowestViolatedCheck

\* C10, amended: checks 1 and 2 come first, checks 3, 4 and 5 are made
\* together in one pass over the bins (at each bin in the order 3, 4, 5), and
\* checks 6, 7, 8 follow; validation stops at the first violation met in
\* this order, so among checks 3-5 the reason is that of the first bin that
\* violates any of them.
C10_FirstViolationInCodeOrder ==
    (pc = "called" /\ vout.status = "rejected")
        => IF LengthsDiffer THEN vout.check = 1
           ELSE IF NonFiniteBins # {}
           THEN vout.check = 2 /\ vout.bin = Least(NonFiniteBins) - 1
           ELSE IF BadBaselineBins \cup OverAbsBins \cup OverRatioBins # {}
           THEN vout.check = CheckAtFirstBadBin /\ vout.bin = FirstBadBin - 1
           ELSE vout.check = LowestViolatedCheck

\* A proposal rejected for the ratio of one bin (check 5) although a later
\* bin exceeds max_bin_delta_nm (check 4).
C10_Witness ==
    /\ pc = "called" /\ vout.status = "rejected"
    /\ vout.check = 5
    /\ \E i \in OverAbsBins : i > vout.bin + 1

\* --- C11: acceptance is the conjunction of the eight checks ---

\* The items of the calibration dict (by their place in the dict) whose
\* value is non-finite or lies outside the range configured for the
\* parameter, and the parameters of these items.
BadCalibrationItems ==
    { k \in 1..Len(vin.calibration) :
        LET p == vin.calibration[k][1]
            value == vin.calibration[k][2]
        IN  \/ ~is_finite(value)
            \/ /\ p \in DOMAIN v_calibration_ranges
               /\ ~(/\ le(v_calibration_ranges[p][1], value)
                    /\ le(value, v_calibration_ranges[p][2])) }
BadCalibrationParams == { vin.calibration[k][1] : k \in BadCalibrationItems }

\* The peak gain ratio of the proposal exceeds max_peak_gain_ratio.
PeakGainOver ==
    /\ Len(vin.baseline_torque_nm) > 0 /\ Len(vin.torque_delta_nm) > 0
    /\ peak_gain_exceeds(peak_gain(vin.baseline_torque_nm, vin.torque_delta_nm),
                         v_max_peak_gain_ratio)

\* The eight conditions of the list, each on all bins or parameters.
AllEightHold ==
    /\ ~LengthsDiffer
    /\ NonFiniteBins = {}
    /\ BadBaselineBins = {}
    /\ OverAbsBins = {}
    /\ OverRatioBins = {}
    /\ ~PeakGainOver
    /\ (Len(vin.torque_delta_nm) >= 3 => RoughBins = {})
    /\ BadCalibrationParams = {}

\* C11: validate_proposal returns its warnings list exactly when the eight
\* conditions hold, and raises ValidationError otherwise.
C11_AcceptsIffAllChecksPass ==
    pc = "called"
        => /\ AllEightHold => vout.status = "accepted"
           /\ ~AllEightHold => vout.status = "rejected"

\* --- C12: smoothness is a property of the delta curve ---

\* Checks 1 to 6 pass: the smoothness check is reached.
Checks1to6Pass ==
    /\ ~LengthsDiffer
    /\ Len(vin.torque_delta_nm) > 0
    /\ NonFiniteBins = {}
    /\ BadBaselineBins = {}
    /\ OverAbsBins = {}
    /\ OverRatioBins = {}
    /\ ~PeakGainOver

\* Every bin of the delta holds the same finite value.
ConstantDelta ==
    /\ NonFiniteBins = {}
    /\ \A i, j \in 1..Len(vin.torque_delta_nm) :
          vin.torque_delta_nm[i] = vin.torque_delta_nm[j]

\* Twice every value of the delta is a finite float.
DoubledDeltaFinite ==
    \A i \in 1..Len(vin.torque_delta_nm) :
        is_finite(fmul(float(2), vin.torque_delta_nm[i]))

\* C12: the smoothness check is decided by the absolute second differences
\* of the delta alone, worked out in floats (RoughBins reads no baseline
\* value): a rejection for smoothness names the first interior bin whose
\* second difference exceeds the bound, a delta with such a bin is rejected
\* for it whenever the check is reached, and a constant delta is never
\* rejected for smoothness under a positive bound as long as twice its
\* value is a finite float; a constant delta whose doubled value is
\* infinite is rejected at the first interior bin when the check is reached
\* under a finite bound.
C12_SmoothnessOnDeltaInFloats ==
    pc = "called"
        => /\ (vout.status = "rejected" /\ vout.check = 7)
                 => RoughBins # {} /\ vout.bin = Least(RoughBins) - 1
           /\ (Checks1to6Pass /\ RoughBins # {})
                 => /\ vout.status = "rejected" /\ vout.check = 7
                    /\ vout.bin = Least(RoughBins) - 1
           /\ (ConstantDelta /\ DoubledDeltaFinite /\ gt(v_max_second_derivative, Zero))
                 => ~(vout.status = "rejected" /\ vout.check = 7)
           /\ (ConstantDelta /\ ~DoubledDeltaFinite /\ Checks1to6Pass
               /\ Len(vin.torque_delta_nm) >= 3 /\ is_finite(v_max_second_derivative))
                 => /\ vout.status = "rejected" /\ vout.check = 7
                    /\ vout.bin = 1

\* C12 as stated: the smoothness check is decided by the absolute second
\* differences of the delta alone: a rejection for smoothness names the
\* first interior bin whose second difference exceeds the bound, a delta
\* with such a bin is rejected for it whenever the check is reached, and a
\* constant delta is never rejected for smoothness under a positive bound.
C12_SmoothnessOnDeltaAlone ==
    pc = "called"
        => /\ (vout.status = "rejected" /\ vout.check = 7)
                 => RoughBins # {} /\ vout.bin = Least(RoughBins) - 1
           /\ (Checks1to6Pass /\ RoughBins # {})
                 => /\ vout.status = "rejected" /\ vout.check = 7
                    /\ vout.bin = Least(RoughBins) - 1
           /\ (ConstantDelta /\ gt(v_max_second_derivative, Zero))
                 => ~(vout.status = "rejected" /\ vout.check = 7)

\* A constant delta that passes checks 1 to 6 is rejected for smoothness
\* at bin 1 under a positive bound.
C12_Witness ==
    /\ pc = "called" /\ vout.status = "rejected" /\ vout.check = 7
    /\ ConstantDelta /\ Checks1to6Pass
    /\ gt(v_max_second_derivative, Zero)
    /\ vout.bin = 1

\* --- C13: the calibration check ---

\* Checks 1 to 7 pass: the calibration check is reached.
Checks1to7Pass == Checks1to6Pass /\ RoughBins = {}

\* The first parameter, in the order of the calibration dict, whose value
\* fails the calibration check.
FirstBadParam == vin.calibration[Least(BadCalibrationItems)][1]

\* C13: a calibration value is rejected, the reason naming its parameter,
\* exactly when it is non-finite or, its parameter having a configured
\* range, lies outside [lo, hi]; lo and hi themselves are accepted, and a
\* parameter without a configured range need only be finite.  The parameter
\* named is the first one, in dict order, that fails.
C13_CalibrationRejectedIffBad ==
    pc = "called"
        => /\ (vout.status = "rejected" /\ vout.check = 8)
                 => /\ BadCalibrationParams # {}
                    /\ vout.param = FirstBadParam
           /\ (Checks1to7Pass /\ BadCalibrationParams # {})
                 => /\ vout.status = "rejected" /\ vout.check = 8
                    /\ vout.param = FirstBadParam
           /\ (Checks1to7Pass /\ BadCalibrationParams = {})
                 => vout.status = "accepted"

\* A calibration accepted with one value equal to the lo and another equal
\* to the hi of its configured range.
C13_Witness ==
    /\ pc = "called" /\ vout.status = "accepted"
    /\ \E k \in 1..Len(vin.calibration) :
          /\ vin.calibration[k][1] \in DOMAIN v_calibration_ranges
          /\ vin.calibration[k][2] = v_calibration_ranges[vin.calibration[k][1]][1]
    /\ \E k \in 1..Len(vin.calibration) :
          /\ vin.calibration[k][1] \in DOMAIN v_calibration_ranges
          /\ vin.calibration[k][2] = v_calibration_ranges[vin.calibration[k][1]][2]

\* --- C14: a negative peak gain is a warning ---

\* The proposal lowers the maximum of the curve.
LowersPeak ==
    /\ Len(vin.baseline_torque_nm) > 0 /\ Len(vin.torque_delta_nm) > 0
    /\ lt(MaxSeq(proposed_torque(vin.baseline_torque_nm, vin.torque_delta_nm)),
          MaxSeq(vin.baseline_torque_nm))

\* C14: a proposal with a negative peak gain ratio that passes all other
\* checks is accepted with exactly one warning; an accepted proposal whose
\* peak gain ratio is in [0, max_peak_gain_ratio] carries no warning.
C14_NegativeGainWarnsOnce ==
    pc = "called"
        => /\ (AllEightHold /\ LowersPeak)
                 => vout.status = "accepted" /\ Len(vout.warnings) = 1
           /\ (vout.status = "accepted" /\ ~LowersPeak)
                 => vout.warnings = <<>>

\* A proposal of two or more bins that lowers the peak is accepted with its
\* warning.
C14_Witness ==
    /\ pc = "called" /\ vout.status = "accepted" /\ LowersPeak
    /\ Len(vout.warnings) = 1
    /\ Len(vin.torque_delta_nm) >= 2

\* --- C15: the final self-validation of process_request ---

\* The outcome of validate_proposal on the result the optimizer returned.
FinalVerdict ==
    validate_proposal(result.torque_delta_nm, items(result.calibration),
                      baseline_torque_nm, rpm_bins, constraints)

\* C15: process_request answers "ok" only when the returned pair passes the
\* final validate_proposal call; when that call rejects, the answer has
\* status "rejected", proposal and metrics null, and the rejection reason as
\* its only warning.
C15_OkOnlyAfterFinalValidation ==
    /\ [](response.status = "ok" => FinalVerdict.status = "accepted")
    /\ [][(pc = "returned" /\ FinalVerdict.status = "rejected")
            => /\ response'.status = "rejected"
               /\ response'.proposal = NoProposal
               /\ response'.metrics = NoMetrics
               /\ response'.warnings = <<FinalVerdict.kind>>]_vars

\* A request the schema validator accepts is answered "rejected".
C15_Witness ==
    /\ pc = "responded" /\ SchemaAccepted
    /\ response.status = "rejected"
    /\ response.warnings # <<>>

\* --- C16: malformed requests ---

\* The request has one of the defects listed: a wrong contract_version; no
\* request_id, seed, cycle_budget, baseline_curve or constraints; empty or
\* length-mismatched rpm_bins / torque_nm; rpm_bins not strictly ascending;
\* a torque value that is not finite and positive; a cycle_budget that is
\* not an integer >= 1; a seed that is not an integer.
Defective ==
    \/ "contract_version" \in DOMAIN req /\ req.contract_version # "1.0"
    \/ \E key \in {"request_id", "seed", "cycle_budget", "baseline_curve",
                    "constraints"} : key \notin DOMAIN req
    \/ /\ "baseline_curve" \in DOMAIN req
       /\ {"rpm_bins", "torque_nm"} \subseteq DOMAIN req.baseline_curve
       /\ LET rpm == req.baseline_curve.rpm_bins
              torque == req.baseline_curve.torque_nm
          IN  \/ Len(rpm) = 0 \/ Len(torque) = 0 \/ Len(rpm) # Len(torque)
              \/ \E i \in 1..(Len(rpm) - 1) : ~(rpm[i] < rpm[i + 1])
              \/ \E i \in 1..Len(torque) :
                    torque[i] \in {NaN, PosInf, NegInf} \/ le(torque[i], Zero)
    \/ /\ "cycle_budget" \in DOMAIN req
       /\ (req.cycle_budget = NotAnInt \/ req.cycle_budget < 1)
    \/ "seed" \in DOMAIN req /\ req.seed = NotAnInt

\* C16: a request with one of the listed defects is answered with status
\* "error" and code SCHEMA_ERROR, and the optimizer is not invoked for it:
\* the answer is given in one step from the arrival of the request and the
\* state of the search is untouched.
C16_DefectiveRequestIsSchemaError ==
    /\ [](Defective => pc \in {"request", "responded"})
    /\ [][(pc = "request" /\ Defective)
            => /\ pc' = "responded"
               /\ response' = error_response("SCHEMA_ERROR")
               /\ UNCHANGED search]_vars

\* A request whose only defect is the last one tested, the non-integer
\* seed, has been answered with SCHEMA_ERROR.
C16_Witness ==
    /\ pc = "responded" /\ response.code = "SCHEMA_ERROR"
    /\ "seed" \in DOMAIN req /\ req.seed = NotAnInt
    /\ validate_request_schema(req) = "seed not an integer"

\* --- C17: confidence ---

\* clamp(estimated_peak_gain_ratio / max_peak_gain_ratio, 0, 1) of the
\* delta returned, the ratio being the peak gain of that delta before it is
\* rounded; 0.0 stands for the quotient when the cap is not positive.
ClampedRatio ==
    clamp(IF gt(c_max_peak_gain_ratio, Zero)
          THEN fdiv(estimated_peak_gain_ratio(baseline_torque_nm, result.torque_delta_nm),
                    c_max_peak_gain_ratio)
          ELSE Zero,
          Zero, One)

\* C17: the returned confidence is clamp(estimated_peak_gain_ratio /
\* max_peak_gain_ratio, 0, 1) of the retained best delta rounded to four
\* decimals (0.0 taking the place of the quotient under a cap that is not
\* positive), lies in [0, 1], and is 0 when the zero delta is returned.
C17_ConfidenceIsRoundedClampedRatio ==
    pc = "returned"
        => /\ le(Zero, result.confidence) /\ le(result.confidence, One)
           /\ ~NonZero(result.torque_delta_nm) => result.confidence = Zero
           /\ result.confidence = round(ClampedRatio, 4)

\* C17 as stated: the returned confidence equals
\* clamp(estimated_peak_gain_ratio / max_peak_gain_ratio, 0, 1) of the
\* retained best delta, lies in [0, 1], and is 0 when the zero delta is
\* returned.
C17_ConfidenceIsClampedRatio ==
    pc = "returned"
        => /\ le(Zero, result.confidence) /\ le(result.confidence, One)
           /\ ~NonZero(result.torque_delta_nm) => result.confidence = Zero
           /\ gt(c_max_peak_gain_ratio, Zero) => result.confidence = ClampedRatio

\* A delta found by the search is returned, under a cap other than the
\* default, with a confidence strictly between 0 and 1 that is not the
\* clamped ratio itself.
C17_Witness ==
    /\ pc = "returned" /\ NonZero(result.torque_delta_nm)
    /\ c_max_peak_gain_ratio # default_max_peak_gain_ratio
    /\ lt(Zero, result.confidence) /\ lt(result.confidence, One)
    /\ result.confidence # ClampedRatio

\* --- C18: the budget ---

\* C18: for every request the schema validator accepts, run_optimization
\* ends by returning, after exactly cycle_budget cycles with one validation
\* each, and the returned cycles_used equals cycle_budget.
C18_CyclesUsedEqualsBudget ==
    (SchemaAccepted /\ pc \in {"returned", "raised"})
        => /\ pc = "returned"
           /\ result.cycles_used = cycle_budget
           /\ Len(verdicts) = cycle_budget


\* ------------------------------------------------------------------------
\* LegacyOptimizer: optimize of src/ecu/ecu_optimizer.py
\* ------------------------------------------------------------------------

\* find_peaks(rpm_bins, torque).peak_torque_nm of a non-empty curve: the
\* first of its largest values.
peak_torque_nm(torque) == MaxSeq(torque)

\* find_peaks(rpm_bins, torque_nm) raises ValueError: the curve is empty,
\* the two lists differ in length, or a torque is not finite (compute_hp).
find_peaks_raises(bins, torque_nm) ==
    \/ Len(bins) = 0
    \/ Len(bins) # Len(torque_nm)
    \/ first_non_finite(torque_nm, 1) # 0

\* apply_torque_deltas(torque_nm, deltas): the sums tq + d, and whether
\* ValueError is raised for lists of different lengths or for a sum that is
\* not finite.
apply_torque_deltas(torque_nm, deltas) ==
    Only({[raised |-> Len(torque_nm) # Len(deltas) \/ first_non_finite(sums, 1) # 0,
           torque |-> sums] :
            sums \in {proposed_torque(torque_nm, deltas)}})

\* gain_ratio of a proposed curve:
\* (peak - baseline_peak_tq) / baseline_peak_tq if baseline_peak_tq > 0 else 0.0
gain_ratio_of(proposed, baseline_peak_tq) ==
    IF gt(baseline_peak_tq, Zero)
    THEN fdiv(fsub(peak_torque_nm(proposed), baseline_peak_tq), baseline_peak_tq)
    ELSE Zero

\* gain_ratio > max_peak_gain.
gain_over_cap(proposed, baseline_peak_tq, max_peak_gain) ==
    gt(gain_ratio_of(proposed, baseline_peak_tq), max_peak_gain)

\* _second_derivative_ok(torque, max_second_deriv): the second difference
\* torque[i-1] - 2*torque[i] + torque[i+1] against max_second_deriv * torque[i].
second_derivative_ok(torque, max_second_deriv) ==
    \A i \in 2..(Len(torque) - 1) :
        ~gt(fabs(fadd(fsub(torque[i - 1], fmul(float(2), torque[i])),
                      torque[i + 1])),
            fmul(max_second_deriv, torque[i]))

\* The constraints of one call, each with the default optimize reads it with.
l_max_peak_gain ==
    get(legacy.constraints, "max_peak_gain_ratio", default_max_peak_gain_ratio)
l_max_bin_delta == get(legacy.constraints, "max_bin_delta_nm", default_max_bin_delta_nm)
l_max_bin_ratio ==
    get(legacy.constraints, "max_bin_delta_ratio", default_max_bin_delta_ratio)
l_max_second_deriv ==
    get(get(legacy.constraints, "smoothness", EmptyDict), "max_second_derivative",
        default_max_second_derivative)
l_baseline_peak_tq == peak_torque_nm(legacy.baseline_torque)

\* The candidate one cycle draws, from bin i on, with the generator in
\* state s: rng.uniform(-per_bin_cap * 0.1, per_bin_cap) with
\* per_bin_cap = min(max_bin_delta, baseline_torque[i] * max_bin_ratio).
RECURSIVE drawn_from(_, _)
drawn_from(s, i) ==
    IF i > Len(legacy.rpm_bins) THEN <<>>
    ELSE Only({<<uniform(s, fmul(fneg(per_bin_cap), Tenth), per_bin_cap)>> :
                 per_bin_cap \in {fmin(l_max_bin_delta,
                                       fmul(legacy.baseline_torque[i],
                                            l_max_bin_ratio))}})
         \o drawn_from(rng_next(s), i + 1)
drawn_candidate(s) == drawn_from(s, 1)

\* [d * scale for d in candidate], from bin i on.
RECURSIVE scaled_from(_, _, _)
scaled_from(drawn, scale, i) ==
    IF i > Len(drawn) THEN <<>>
    ELSE <<fmul(drawn[i], scale)>> \o scaled_from(drawn, scale, i + 1)

\* The candidate scaled by max_peak_gain / gain_ratio * 0.95 and applied
\* to the baseline again.
rescaled(drawn, gain_ratio) ==
    Only({Only({[raised |-> second.raised, deltas |-> scaled, proposed |-> second.torque] :
                  second \in {apply_torque_deltas(legacy.baseline_torque, scaled)}}) :
            scaled \in {scaled_from(drawn,
                                    fmul(fdiv(l_max_peak_gain, gain_ratio), F(0, 9500)),
                                    1)}})

\* The candidate after the peak-gain check, with the curve it proposes:
\* scaled when its gain is over the cap and positive, left as drawn
\* otherwise; raised when apply_torque_deltas raises, for the candidate as
\* drawn or as scaled.
scaled_candidate(drawn) ==
    Only({IF first.raised
          THEN [raised |-> TRUE, deltas |-> drawn, proposed |-> first.torque]
          ELSE Only({IF gt(gain_ratio, l_max_peak_gain) /\ gt(gain_ratio, Zero)
                     THEN rescaled(drawn, gain_ratio)
                     ELSE [raised |-> FALSE, deltas |-> drawn, proposed |-> first.torque] :
                       gain_ratio \in {gain_ratio_of(first.torque, l_baseline_peak_tq)}}) :
            first \in {apply_torque_deltas(legacy.baseline_torque, drawn)}})

\* The calibration ranges optimize falls back on.
legacy_defaults ==
    [afr_target |-> <<F(11, 5000), F(14, 7000)>>,
     ign_timing_deg |-> <<fneg(F(2, 0)), F(8, 0)>>,
     boost_target_psi |-> <<Zero, F(22, 0)>>]

\* afr_range, ign_range and boost_range: the configured range of the
\* parameter, or the default one.
l_range(param) ==
    get(get(legacy.constraints, "calibration_ranges", EmptyDict), param,
        legacy_defaults[param])

\* afr_range[0] + afr_range[1] of the first best_calibration raises
\* IndexError: a range holds fewer than two values.
midpoint_raises == \E k \in 1..3 : Len(l_range(Params[k])) < 2

\* _clamp(value, *afr_range) of the final calibration raises TypeError: a
\* range holds more (or fewer) than two values.
clamp_raises == \E k \in 1..3 : Len(l_range(Params[k])) # 2

\* The three draws of the final calibration, clamped and rounded to two
\* decimals.
l_final_calibration(s) ==
    [k \in {Params[1], Params[2], Params[3]} |->
        LET j == CHOOSE n \in 1..3 : Params[n] = k
            range == l_range(k)
        IN  round(clamp(uniform(rng_after(s, j - 1), range[1], range[2]),
                        range[1], range[2]), 2)]

\* [round(d, 4) for d in best_deltas], from bin i on.
RECURSIVE rounded_from(_, _)
rounded_from(deltas, i) ==
    IF i > Len(deltas) THEN <<>>
    ELSE <<round(deltas[i], 4)>> \o rounded_from(deltas, i + 1)

\* The dict optimize returns.
l_result ==
    LET final_proposed ==
            apply_torque_deltas(legacy.baseline_torque, legacy.best_deltas).torque
    IN  [torque_delta_nm |-> rounded_from(legacy.best_deltas, 1),
         calibration |-> l_final_calibration(legacy.rng),
         confidence |->
            round(clamp(fdiv(legacy.best_score,
                             fmax(SumSeq(legacy.baseline_torque), One)),
                        Zero, One), 4),
         estimated_peak_gain_ratio |->
            round(gain_ratio_of(final_proposed, l_baseline_peak_tq), 6),
         cycles_used |-> legacy.cycle_budget,
         best_score |-> round(legacy.best_score, 4)]

\* The calls of optimize that are explored: curves of whole newton metres,
\* the empty curve among them, under four sets of constraints (a peak gain
\* cap of 0.02488 among them).
LegacyCurves ==
    { <<>>, <<F(1, 0)>>, <<F(2, 0)>>, <<F(1, 0), F(2, 0)>>,
      <<F(2, 0), F(2, 0), F(2, 0)>> }

LegacyConstraints ==
    { EmptyDict,
      [max_peak_gain_ratio |-> decimal(2488, 5)],
      [max_peak_gain_ratio |-> F(0, 100),
       smoothness |-> [max_second_derivative |-> F(0, 200)]],
      [max_bin_delta_nm |-> F(0, 200)] }

\* Calls in which optimize raises: lists of different lengths, a torque
\* that is NaN, a range of one value and of three, and a cap that is NaN.
LegacyEdges ==
    { <<<<1000, 2000>>, <<F(1, 0)>>, EmptyDict>>,
      <<<<1000>>, <<NaN>>, EmptyDict>>,
      <<<<1000>>, <<F(1, 0)>>, [calibration_ranges |-> [afr_target |-> <<F(12, 0)>>]]>>,
      <<<<1000>>, <<F(1, 0)>>,
        [calibration_ranges |-> [ign_timing_deg |-> <<fneg(F(2, 0)), F(8, 0), F(9, 0)>>]]>>,
      <<<<1000, 2000>>, <<F(1, 0), F(2, 0)>>, [max_bin_delta_nm |-> NaN]>> }

LegacyCall(bins, torque, k, budget, seed) ==
    [rpm_bins |-> bins,
     baseline_torque |-> torque,
     constraints |-> k,
     cycle_budget |-> budget,
     seed |-> seed,
     rng |-> random_Random(0),
     cycle |-> 0,
     best_deltas |-> <<>>,
     best_score |-> Zero,
     returned |-> NoResult]

\* The calls of optimize explored: cycle_budget from -1 (no cycle is run for
\* a budget of 0 or less) to MaxBudget.
LegacyCalls ==
    { LegacyCall([i \in 1..Len(b) |-> 1000 * i], b, k, budget, seed) :
        b \in LegacyCurves, k \in LegacyConstraints,
        budget \in -1..MaxBudget, seed \in 0..MaxSeed }
    \cup { LegacyCall(c[1], c[2], c[3], budget, seed) :
             c \in LegacyEdges, budget \in -1..2, seed \in 0..MaxSeed }

InitL ==
    /\ legacy \in LegacyCalls
    /\ pc = "l_call"
    /\ wear = NoWear
    /\ req = Request(0, 1, Curve(<<1000>>, <<F(200, 0)>>), EmptyDict)
    /\ run = 1
    /\ rng = random_Random(0)
    /\ cycle = 0
    /\ cycles_used = 0
    /\ best_delta = <<>>
    /\ best_calibration = EmptyDict
    /\ best_score = Zero
    /\ best_warnings = <<>>
    /\ verdicts = <<>>
    /\ sampled = <<>>
    /\ result = NoResult
    /\ first_result = NoResult
    /\ response = NoResponse
    /\ vin = NoCall
    /\ vout = NoVerdict

l_others ==
    <<wear, req, run, search, result, first_result, response, vin, vout>>

\* optimize up to its loop: the generator is seeded and the best so far is
\* the zero delta with score 0.0.
LegacyOptimize ==
    /\ pc = "l_call"
    /\ ~find_peaks_raises(legacy.rpm_bins, legacy.baseline_torque)
    /\ ~midpoint_raises
    /\ legacy' = [legacy EXCEPT !.rng = random_Random(legacy.seed),
                                !.best_deltas = zeros(Len(legacy.rpm_bins)),
                                !.best_score = Zero]
    /\ pc' = "l_loop"
    /\ UNCHANGED l_others

\* optimize raises before its loop: find_peaks raises ValueError on the
\* baseline curve, or the midpoint of a range raises IndexError.
LegacyOptimizeRaises ==
    /\ pc = "l_call"
    /\ find_peaks_raises(legacy.rpm_bins, legacy.baseline_torque) \/ midpoint_raises
    /\ pc' = "l_raised"
    /\ UNCHANGED <<legacy, l_others>>

\* One cycle of the loop: draw, scale if over the cap, skip the candidate
\* if it is not smooth, keep it if its score is strictly higher.  The
\* ValueError of apply_torque_deltas ends optimize.
LegacyCycle ==
    /\ pc = "l_loop"
    /\ legacy.cycle < legacy.cycle_budget
    /\ \E candidate_l \in {scaled_candidate(drawn_candidate(legacy.rng))} :
       \E score \in {SumSeq(candidate_l.deltas)} :
          LET kept == /\ ~candidate_l.raised
                      /\ second_derivative_ok(candidate_l.proposed, l_max_second_deriv)
                      /\ gt(score, legacy.best_score)
          IN  /\ legacy' = [legacy EXCEPT
                               !.rng = rng_after(legacy.rng, Len(legacy.rpm_bins)),
                               !.cycle = legacy.cycle + 1,
                               !.best_deltas = IF kept THEN candidate_l.deltas ELSE @,
                               !.best_score = IF kept THEN score ELSE @]
              /\ pc' = IF candidate_l.raised THEN "l_raised" ELSE "l_loop"
    /\ UNCHANGED l_others

\* The end of optimize, when range(cycle_budget) is used up (at once for a
\* cycle_budget of 0 or less): the final calibration is drawn and the
\* result, with its rounded deltas, is returned.
LegacyReturn ==
    /\ pc = "l_loop"
    /\ legacy.cycle >= legacy.cycle_budget
    /\ ~clamp_raises
    /\ legacy' = [legacy EXCEPT !.rng = rng_after(legacy.rng, 3),
                                !.returned = l_result]
    /\ pc' = "l_returned"
    /\ UNCHANGED l_others

\* The end of optimize with a range of three values: the first _clamp call
\* on it raises TypeError, after the draw of its parameter.
LegacyReturnRaises ==
    /\ pc = "l_loop"
    /\ legacy.cycle >= legacy.cycle_budget
    /\ clamp_raises
    /\ pc' = "l_raised"
    /\ UNCHANGED <<legacy, l_others>>

NextL ==
    \/ LegacyOptimize
    \/ LegacyOptimizeRaises
    \/ LegacyCycle
    \/ LegacyReturn
    \/ LegacyReturnRaises

SpecL == InitL /\ [][NextL]_vars

\* The delta optimize returned puts the peak over max_peak_gain_ratio.
ReturnedOverCap ==
    gain_over_cap(proposed_torque(legacy.baseline_torque,
                                  legacy.returned.torque_delta_nm),
                  l_baseline_peak_tq, l_max_peak_gain)

\* The delta kept as best so far puts the peak over max_peak_gain_ratio.
BestOverCap ==
    gain_over_cap(proposed_torque(legacy.baseline_torque, legacy.best_deltas),
                  l_baseline_peak_tq, l_max_peak_gain)

\* C19: the delta the legacy optimize returns never gives a peak torque gain
\* above max_peak_gain_ratio, and neither does any delta it keeps as best
\* during the search.
C19_LegacyGainWithinCap ==
    /\ pc = "l_loop" => ~BestOverCap
    /\ pc = "l_returned" => ~ReturnedOverCap

\* ------------------------------------------------------------------------
\* PartWear: apply_race_wear and races_until_worn_out of src/ecu/wear.py
\* ------------------------------------------------------------------------

\* Conditions are kept in thousandths: 1.0 is 1000 and one race costs 10.
WEAR_PER_RACE == 10
MIN_CONDITION == 0
MAX_CONDITION == 1000

\* A condition that is not a finite number (nan, inf).
NotFinite == 2000000001

\* The check both functions start with: a finite condition in
\* [MIN_CONDITION, MAX_CONDITION], or ValueError.
condition_ok(condition) ==
    /\ condition # NotFinite
    /\ condition >= MIN_CONDITION
    /\ condition <= MAX_CONDITION

\* apply_race_wear(condition, races) for a valid condition and races >= 0.
apply_race_wear(condition, races) ==
    Max2(MIN_CONDITION, condition - WEAR_PER_RACE * races)

\* The conditions whose quotient by WEAR_PER_RACE, a whole number in decimal,
\* falls just below that number in binary floating point:
\* 0.29 / 0.01 = 28.999999999999996. No other condition in thousandths does.
ShortQuotients == {290, 470, 570, 580, 590, 940}

\* math.floor(condition / WEAR_PER_RACE) of the floating-point quotient.
floor_of_quotient(condition) ==
    IF condition \in ShortQuotients
    THEN condition \div WEAR_PER_RACE - 1
    ELSE condition \div WEAR_PER_RACE

\* races_until_worn_out(condition) for a valid condition.
races_until_worn_out(condition) ==
    IF condition <= MIN_CONDITION THEN 0 ELSE floor_of_quotient(condition)

\* The parts explored: every condition in thousandths from 0.0 to 1.0, and
\* three conditions that are not valid.
Conditions == (MIN_CONDITION..MAX_CONDITION) \cup {-1, MAX_CONDITION + 1, NotFinite}

InitW ==
    /\ wear \in { [condition |-> c, until |-> 0, races |-> 0, after |-> c] :
                    c \in Conditions }
    /\ pc = "w_part"
    /\ legacy = NoLegacy
    /\ req = Request(0, 1, Curve(<<1000>>, <<F(200, 0)>>), EmptyDict)
    /\ run = 1
    /\ rng = random_Random(0)
    /\ cycle = 0
    /\ cycles_used = 0
    /\ best_delta = <<>>
    /\ best_calibration = EmptyDict
    /\ best_score = Zero
    /\ best_warnings = <<>>
    /\ verdicts = <<>>
    /\ sampled = <<>>
    /\ result = NoResult
    /\ first_result = NoResult
    /\ response = NoResponse
    /\ vin = NoCall
    /\ vout = NoVerdict

w_others ==
    <<legacy, req, run, search, result, first_result, response, vin, vout>>

\* races_until_worn_out(wear.condition): the count, or ValueError.
RacesUntilWornOut ==
    /\ pc = "w_part"
    /\ IF condition_ok(wear.condition)
       THEN /\ wear' = [wear EXCEPT !.until = races_until_worn_out(wear.condition)]
            /\ pc' = "w_counted"
       ELSE /\ pc' = "w_raised"
            /\ UNCHANGED wear
    /\ UNCHANGED w_others

\* apply_race_wear(wear.condition, races) for a number of races up to one
\* past the count; a negative number of races is a ValueError.
ApplyRaceWear ==
    /\ pc = "w_counted"
    /\ \E races \in -1..(wear.until + 1) :
          IF races < 0
          THEN /\ pc' = "w_raised"
               /\ UNCHANGED wear
          ELSE /\ wear' = [wear EXCEPT
                              !.races = races,
                              !.after = apply_race_wear(wear.condition, races)]
               /\ pc' = "w_raced"
    /\ UNCHANGED w_others

NextW ==
    \/ RacesUntilWornOut
    \/ ApplyRaceWear

SpecW == InitW /\ [][NextW]_vars

\* C20: for every condition in [0, 1], applying races_until_worn_out(c)
\* races brings the condition to exactly 0.0 and applying fewer leaves it
\* above 0.0.
C20_RacesUntilWornOutReachesZero ==
    pc = "w_raced" =>
        /\ wear.races = wear.until => wear.after = MIN_CONDITION
        /\ wear.races < wear.until => wear.after > MIN_CONDITION

\* ------------------------------------------------------------------------
\* The delta profile generator inside the search loop
\* ------------------------------------------------------------------------

\* A cycle of the loop has run; the last one is the cycle numbered
\* Len(sampled) - 1, and its locals are in the last record of sampled.
CycleRan == SchemaAccepted /\ Len(sampled) > 0
last == sampled[Len(sampled)]

\* The call of _gaussian_delta_profile in the last cycle, with its locals,
\* and the profile it returned.
generated == last.candidate.profile
profile == generated.deltas

\* Every bin of the baseline has a positive torque.
PositiveBaseline ==
    \A i \in 1..Len(baseline_torque_nm) : gt(baseline_torque_nm[i], Zero)

\* L: the per-bin ceilings of the request.
L == per_bin_limit(baseline_torque_nm, c_max_bin_delta_nm, c_max_bin_delta_ratio)

\* C21: for a baseline with positive torque, the profile generated in a
\* cycle has the length of the baseline and every d[i] satisfies
\* 0 <= d[i] <= L[i].
C21_ProfileWithinCeilings ==
    (CycleRan /\ PositiveBaseline)
        => /\ Len(profile) = Len(baseline_torque_nm)
           /\ \A i \in 1..Len(profile) : le(Zero, profile[i]) /\ le(profile[i], L[i])

\* The validator's smoothness check passes on the generated profile.
ProfileSmooth == first_rough_bin(profile, 2, c_max_second_derivative) = 0

\* The final clamp of the generator changed no value.
ClampIdle == profile = generated.raw

\* C22: every generated profile passes the validator's smoothness check,
\* the sampled sigma is at least min_sigma, and the final clamp to
\* [0, L[i]] changes no value.
C22_ProfileSmoothByConstruction ==
    CycleRan
        => /\ ge(generated.sigma, generated.min_sigma)
           /\ ProfileSmooth
           /\ ClampIdle

\* The scale of cycle k: 1.0 - (k / cycle_budget) * 0.5, from the request.
ScaleAt(k) == fsub(One, fmul(fdiv(float(k), float(cycle_budget)), Half))

\* global_limit = min(L) * s in cycle k, from the request.
GlobalLimitAt(k) == fmul(MinSeq(L), ScaleAt(k))
GlobalLimit == GlobalLimitAt(Len(sampled) - 1)

\* The first early return of the generator applies.
NoHeadroom == le(GlobalLimit, Zero) \/ le(c_max_second_derivative, Zero)

\* The peak the generator samples once it is past the first early return.
SampledPeak == uniform(last.rng, Zero, GlobalLimit)

\* C23: the generator returns the all-zero profile of length n when
\* global_limit <= 0 or max_second_derivative <= 0, without drawing from the
\* random stream, and when the sampled peak is <= 0.
C23_ZeroProfileOnEarlyReturn ==
    CycleRan
        => /\ NoHeadroom
                => /\ profile = zeros(Len(baseline_torque_nm))
                   /\ generated.rng = last.rng
           /\ (~NoHeadroom /\ le(SampledPeak, Zero))
                => /\ profile = zeros(Len(baseline_torque_nm))
                   /\ generated.rng = rng_next(last.rng)

\* A cycle on a curve of two or more bins whose global_limit is positive
\* sampled a peak of 0.0, returned the zero profile and left the generator
\* one draw further.
C23_Witness ==
    /\ CycleRan
    /\ ~NoHeadroom
    /\ le(SampledPeak, Zero)
    /\ Len(baseline_torque_nm) >= 2
    /\ profile = zeros(Len(baseline_torque_nm))
    /\ generated.rng = rng_next(last.rng)

\* ------------------------------------------------------------------------
\* The retained best across the cycles
\* ------------------------------------------------------------------------

\* The retained best after a step is the one before it.
BestKept ==
    /\ best_delta' = best_delta
    /\ best_calibration' = best_calibration
    /\ best_score' = best_score
    /\ best_warnings' = best_warnings

\* One cycle of the loop respects the strict greedy rule: the verdict and
\* the score are those of the candidate of this cycle.
StrictGreedyStep ==
    (SchemaAccepted /\ pc = "loop" /\ cycle' = cycle + 1)
        => LET candidate_verdict == verdicts'[Len(verdicts')]
               candidate_score == sampled'[Len(sampled')].score
           IN  /\ ge(best_score', best_score)
               /\ ~BestKept
                    => /\ candidate_verdict.status = "accepted"
                       /\ gt(candidate_score, best_score)
                       /\ best_score' = candidate_score
               /\ le(candidate_score, best_score) => BestKept

\* C24 as stated: the retained best is replaced only by a validated
\* candidate with a strictly greater score; best_score never decreases from
\* one cycle to the next, a candidate with an equal score never replaces
\* the earlier best, and the returned best_score is at least sum(baseline).
C24_StrictGreedyImprovement ==
    /\ [][StrictGreedyStep]_vars
    /\ []((SchemaAccepted /\ pc = "returned")
             => ge(result.best_score, SumSeq(baseline_torque_nm)))

\* C24: the retained best is replaced only by a validated candidate with a
\* strictly greater score; best_score never decreases from one cycle to the
\* next, a candidate with an equal score never replaces the earlier best,
\* the best_score of the loop is at least sum(baseline) when the loop ends,
\* and the best_score returned, which is that score rounded to four
\* decimals, is at least sum(baseline) rounded to four decimals.
C24_StrictGreedyUpToRounding ==
    /\ [][StrictGreedyStep]_vars
    /\ []((SchemaAccepted /\ pc = "returned")
             => /\ ge(best_score, SumSeq(baseline_torque_nm))
                /\ result.best_score = round(best_score, 4)
                /\ ge(result.best_score, round(SumSeq(baseline_torque_nm), 4)))

\* A cycle whose candidate was accepted with the score of the baseline left
\* the initial best in place, and the run returned it with a best_score
\* below sum(baseline).
C24_Witness ==
    /\ SchemaAccepted /\ pc = "returned" /\ cycle_budget >= 2
    /\ \E k \in 1..Len(verdicts) :
          /\ verdicts[k].status = "accepted"
          /\ sampled[k].score = SumSeq(baseline_torque_nm)
    /\ lt(result.best_score, SumSeq(baseline_torque_nm))
    /\ result.calibration = initial_pick.calibration

\* ------------------------------------------------------------------------
\* The order of the random draws
\* ------------------------------------------------------------------------

\* The draws of a delta profile, in the order of the code.
ProfileDraws == <<"peak", "sigma", "center">>

\* The number of values the delta profile of cycle k draws when the
\* generator is in state s: none on the first early return, the peak alone
\* on the second, and peak, sigma and center otherwise.
ProfileDrawCount(s, k) ==
    IF le(GlobalLimitAt(k), Zero) \/ le(c_max_second_derivative, Zero) THEN 0
    ELSE IF le(uniform(s, Zero, GlobalLimitAt(k)), Zero) THEN 1
    ELSE 3

\* The state of the generator when cycle k starts, replayed from the seed
\* with no validation at all: the initial calibration, then for each earlier
\* cycle its delta profile and its calibration.
RECURSIVE rng_at(_)
rng_at(k) ==
    IF k = 0 THEN rng_after(random_Random(req.seed), Len(Params))
    ELSE Only({rng_after(s, ProfileDrawCount(s, k - 1) + Len(Params)) :
                 s \in {rng_at(k - 1)}})

\* C25: the draws of run_optimization come in one fixed order: the initial
\* calibration before the loop, then in every cycle the draws of the delta
\* profile (peak, sigma, center) before those of the calibration
\* (afr_target, ign_timing_deg, boost_target_psi); the state of the random
\* stream at the start of a cycle does not depend on the verdicts of the
\* earlier cycles.
C25_DrawsInFixedOrder ==
    /\ (SchemaAccepted /\ pc = "request" /\ ~initial_pick.raised)
          => initial_pick.draws = Params
    /\ (CycleRan /\ ~last.candidate.raised)
          => /\ \E j \in {0, 1, 3} :
                   last.candidate.draws = SubSeq(ProfileDraws, 1, j) \o Params
             /\ last.rng = rng_at(Len(sampled) - 1)
    /\ (SchemaAccepted /\ pc = "loop") => rng = rng_at(cycle)

\* The third cycle drew all six values, after a cycle whose candidate was
\* accepted and one whose candidate was rejected.
C25_Witness ==
    /\ CycleRan /\ Len(sampled) >= 3
    /\ last.candidate.draws = ProfileDraws \o Params
    /\ \E k \in 1..2 : verdicts[k].status = "accepted"
    /\ \E k \in 1..2 : verdicts[k].status = "rejected"

\* ------------------------------------------------------------------------
\* The exploration scale
\* ------------------------------------------------------------------------

\* The scale passed to the generator in the last cycle.
scale == last.candidate.scale

\* 2^-52, the spacing of the floats in [1, 2).
Epsilon == fl(1, <<1>>, -52, FALSE)

\* The float nearest to the exact quotient
\* (2 * cycle_budget - cycle) / (2 * cycle_budget) of the last cycle.
ExactScale ==
    Only({Only({fl(1, qr.q, -100, qr.inexact) :
                  qr \in {div(shl(sub(twice, nat(Len(sampled) - 1)), 100), twice)}}) :
            twice \in {mul_small(int_digits(cycle_budget), 2)}})

\* cycle_budget < 2^50: a step of 1 / (2 * cycle_budget) is four spacings
\* of the floats below 1.0 or more.
BudgetBelowTwoTo50 == bit_length(int_digits(cycle_budget)) <= 50

\* C26 as stated: in every cycle 0..cycle_budget-1 the scale passed to the
\* generator is 1.0 - (cycle / cycle_budget) * 0.5 (within the spacing of
\* the floats of the exact quotient): 1.0 at cycle 0, strictly smaller than
\* in every earlier cycle, and in (0.5, 1.0].
C26_ScaleSchedule ==
    CycleRan
        => /\ le(fabs(fsub(scale, ExactScale)), Epsilon)
           /\ Len(sampled) = 1 => scale = One
           /\ \A k \in 1..(Len(sampled) - 1) : gt(sampled[k].candidate.scale, scale)
           /\ gt(scale, Half)
           /\ le(scale, One)

\* C26: in every cycle the scale passed to the generator is the float
\* 1.0 - (cycle / cycle_budget) * 0.5 (within the spacing of the floats of
\* the exact quotient): 1.0 at cycle 0, never larger than in an earlier
\* cycle, and in [0.5, 1.0]; for a cycle_budget below 2^50 it is strictly
\* smaller than in every earlier cycle and above 0.5.
C26_ScaleScheduleInFloats ==
    CycleRan
        => /\ scale = ScaleAt(Len(sampled) - 1)
           /\ le(fabs(fsub(scale, ExactScale)), Epsilon)
           /\ Len(sampled) = 1 => scale = One
           /\ \A k \in 1..(Len(sampled) - 1) : ge(sampled[k].candidate.scale, scale)
           /\ ge(scale, Half)
           /\ le(scale, One)
           /\ BudgetBelowTwoTo50
                 => /\ \A k \in 1..(Len(sampled) - 1) :
                          gt(sampled[k].candidate.scale, scale)
                    /\ gt(scale, Half)

\* The second cycle of a budget of 10^16 has run, at the scale 1.0 of the
\* first.
C26_Witness ==
    /\ CycleRan /\ Len(sampled) = 2 /\ ~BudgetBelowTwoTo50
    /\ scale = One /\ sampled[1].candidate.scale = One

\* ------------------------------------------------------------------------
\* The warnings of the result
\* ------------------------------------------------------------------------

\* validate_proposal on the pair run_optimization returned.
returned_verdict ==
    validate_proposal(result.torque_delta_nm, items(result.calibration),
                      baseline_torque_nm, rpm_bins, constraints)

\* C27: the warnings in the result of run_optimization are what
\* validate_proposal returns for the returned (best delta, best calibration).
C27_WarningsOfReturnedPair ==
    (SchemaAccepted /\ pc = "returned")
        => /\ returned_verdict.status = "accepted"
           /\ result.warnings = returned_verdict.warnings

\* ------------------------------------------------------------------------
\* The calibration sampler inside run_optimization
\* ------------------------------------------------------------------------

\* The three fixed parameter names.
ParamNames == { Params[k] : k \in 1..Len(Params) }

\* A mapping returned by _pick_calibration is as specified: exactly the
\* three names, each value within the configured range of its parameter,
\* bounds in either order, or within the default range.
WellPicked(picked) ==
    /\ ~picked.raised
    /\ DOMAIN picked.calibration = ParamNames
    /\ \A param \in ParamNames :
          LET range == range_of(c_calibration_ranges, param)
          IN  /\ ge(picked.calibration[param], fmin(range[1], range[2]))
              /\ le(picked.calibration[param], fmax(range[1], range[2]))

\* C28: every call of _pick_calibration, before the loop and in each cycle,
\* returns a mapping with exactly the names afr_target, ign_timing_deg and
\* boost_target_psi, each value in [min(lo, hi), max(lo, hi)] of the
\* configured range when one is present and of the default range otherwise.
C28_CalibrationWithinRanges ==
    /\ (SchemaAccepted /\ pc # "request") => WellPicked(initial_pick)
    /\ CycleRan => WellPicked(last.candidate.picked)

\* ------------------------------------------------------------------------
\* The retained pair
\* ------------------------------------------------------------------------

\* The (delta, calibration) pair sampled in cycle k - 1: what the two calls
\* of that cycle returned.
sampled_in(k) ==
    [delta |-> sampled[k].candidate.profile.deltas,
     calibration |-> sampled[k].candidate.picked.calibration]

\* The retained pair is the one sampled in cycle k - 1.
RetainedFrom(k) ==
    /\ best_delta = sampled_in(k).delta
    /\ best_calibration = sampled_in(k).calibration

\* The retained pair is the one the search starts from.
RetainedInitial ==
    /\ best_delta = zeros(Len(baseline_torque_nm))
    /\ best_calibration = initial_pick.calibration

\* C29: at the end of every cycle best_score equals
\* sum(baseline[i] + best_delta[i]) for the retained best_delta, and the
\* retained delta and calibration were sampled in the same cycle, or are the
\* zero vector and the calibration sampled before the loop; the result
\* returns that pair.
C29_BestPairConsistent ==
    (SchemaAccepted /\ Searching)
        => /\ best_score = SumSeq(proposed_torque(baseline_torque_nm, best_delta))
           /\ \/ RetainedInitial
              \/ \E k \in 1..Len(sampled) : RetainedFrom(k)
           /\ best_delta = zeros(Len(baseline_torque_nm)) => RetainedInitial
           /\ pc = "returned"
                 => /\ result.torque_delta_nm = best_delta
                    /\ result.calibration = best_calibration

\* A run returned the pair sampled in its second cycle or later, whose
\* calibration is not the one sampled before the loop.
C29_Witness ==
    /\ SchemaAccepted /\ pc = "returned"
    /\ NonZero(result.torque_delta_nm)
    /\ result.calibration # initial_pick.calibration
    /\ \E k \in 2..Len(sampled) : RetainedFrom(k)
    /\ ~RetainedFrom(1)

\* ------------------------------------------------------------------------
\* Non-negative deltas and the warnings
\* ------------------------------------------------------------------------

\* No bin of a delta is negative.
NonNegative(delta) == \A i \in 1..Len(delta) : ge(delta[i], Zero)

\* C30: every delta the search loop generates is non-negative, no candidate
\* of the loop gets a warning from the validator, and the result of
\* run_optimization has estimated_peak_gain_ratio >= 0 and no warnings.
C30_NoWarningsFromTheSearch ==
    /\ CycleRan => NonNegative(profile)
    /\ (SchemaAccepted /\ Searching)
          => /\ NonNegative(best_delta)
             /\ \A k \in 1..Len(verdicts) : verdicts[k].warnings = <<>>
    /\ (SchemaAccepted /\ pc = "returned")
          => /\ ge(result.estimated_peak_gain_ratio, Zero)
             /\ result.warnings = <<>>

\* A run of two or more cycles returned a delta that raises the peak, with
\* no warnings, after a candidate was accepted.
C30_Witness ==
    /\ SchemaAccepted /\ pc = "returned" /\ cycle_budget >= 2
    /\ gt(result.estimated_peak_gain_ratio, Zero)
    /\ result.warnings = <<>>
    /\ \E k \in 1..Len(verdicts) :
          verdicts[k].status = "accepted" /\ verdicts[k].warnings = <<>>

====
